---- MODULE Spec2Model ----
(***************************************************************************)
(* State-machine model of actions/srmChallenges.js (tc-api): the listing   *)
(* endpoints searchSRMChallenges, getSRMSchedule and getPracticeProblems,  *)
(* the detail endpoints getSRMChallenge and getSrmRoundsForProblem, and    *)
(* the admin endpoints listSRMContests, createSRMContest,                  *)
(* updateSRMContest, setRoundRoomAssignment, setRoundLanguages,            *)
(* setRoundEvents and loadRoundAccess.  One request is in flight at a      *)
(* time; the suspension points are the calls to the store (executeQuery,   *)
(* executeSqlQuery, readQuery, getNextIDFromDb).                           *)
(***************************************************************************)
EXTENDS Integers, Sequences, FiniteSets, TLC

VARIABLES
    req,        \* the request: endpoint, connection.params, connection.caller,
                \* and whether the connection has a dbConnectionMap
    pc,         \* position of the handler: start, reading, querying, auto, done, crashed
    pageIndex,  \* local pageIndex (a JS number)
    pageSize,   \* local pageSize (a JS number)
    sortColumn, \* local sortColumn
    sortOrder,  \* local sortOrder
    sqlParams,  \* the parameter object handed to the queries
    filters,    \* the filter clauses spliced into the count and the data query
    results,    \* results of the count and the data query
    error,      \* the error the request is answered with (Null when none)
    response,   \* connection.response
    pending,    \* store calls issued and not yet completed
    issued,     \* every store call of this request, in the order of issue
    rows,       \* the store: number of rows matching the listing query
    dirty,      \* the store was written while this request was between its queries
    auto,       \* the results object of async.auto of the admin endpoints
    SCHEDULE_TIMEZONE   \* the module variable of that name

vars == <<req, pc, pageIndex, pageSize, sortColumn, sortOrder, sqlParams, filters, results,
          error, response, pending, issued, rows, dirty, auto, SCHEDULE_TIMEZONE>>

(***************************************************************************)
(* Program constants.                                                      *)
(***************************************************************************)
MAX_INT == 2147483647
DEFAULT_PAGE_SIZE == 50
PRACTICE_PAGE_SIZE == 10
CHALLENGE_NAME_MAX == 32
PROBLEM_NAME_MAX == 32
MAX_ID == 999999999

(***************************************************************************)
(* Bounds of the model.                                                    *)
(***************************************************************************)
MaxPageIndex == 2
MaxPageSize == 2
MaxRows == 3

(***************************************************************************)
(* JavaScript values.  A raw numeric parameter is what the HTTP layer      *)
(* delivers: undefined, the empty string, a decimal integer string, a      *)
(* string of a non-integer number (v + 0.5), a string of an integer above  *)
(* MAX_INT, or a string that is no number.                                 *)
(***************************************************************************)
undefined == "<undefined>"

RawUndef == [t |-> "undefined", v |-> 0]
RawEmpty == [t |-> "empty", v |-> 0]
RawText == [t |-> "text", v |-> 0]
RawBig == [t |-> "big", v |-> 0]
RawInt(n) == [t |-> "int", v |-> n]
RawFrac(n) == [t |-> "frac", v |-> n]

NaN == [t |-> "nan", v |-> 0]
Num(n) == [t |-> "int", v |-> n]

\* A date parameter is either well formed, and then a point on a time line, or
\* malformed.  A comma-delimited list parameter is the sequence of its
\* elements, which is what split(',') makes of it.
JsUndefined == RawUndef
Date(n) == [t |-> "date", v |-> n]
BadDate == [t |-> "baddate", v |-> 0]
Csv(elements) == [t |-> "csv", v |-> elements]

\* A text parameter is the sequence of its characters; the characters that
\* matter are the two quotes, a capital and a plain character.
Quote == "\""
Apostrophe == "'"
Text(s) == [t |-> "str", v |-> s]
Pad(n) == [i \in 1..n |-> "a"]

\* x || d for a raw parameter: undefined and "" are falsy
OrDefault(x, d) == IF x.t \in {"undefined", "empty"} THEN Num(d) ELSE x

\* Number(x)
Number(x) ==
    CASE x.t = "int" -> [t |-> "int", v |-> x.v]
      [] x.t = "frac" -> [t |-> "frac", v |-> x.v]
      [] x.t = "big" -> [t |-> "big", v |-> 0]
      [] x.t = "empty" -> [t |-> "int", v |-> 0]
      [] OTHER -> NaN

\* x === n for a JS number x and an integer n
NumEq(x, n) == x.t = "int" /\ x.v = n

\* x > max, max an integer not above MAX_INT
NumGreater(x, max) ==
    CASE x.t = "int" -> x.v > max
      [] x.t = "frac" -> x.v >= max
      [] x.t = "big" -> TRUE
      [] OTHER -> FALSE

\* s || d for a string parameter
StrOrDefault(s, d) == IF s = undefined \/ s = "" THEN d ELSE s

LowerMap ==
    ("Single Round Match" :> "single round match") @@
    ("Tournament Round" :> "tournament round") @@ ("Long Round" :> "long round") @@
    ("roundId" :> "roundid") @@ ("ROUNDID" :> "roundid") @@
    ("startDate" :> "startdate") @@ ("totalCompetitors" :> "totalcompetitors") @@
    ("divICompetitors" :> "divicompetitors") @@ ("divIICompetitors" :> "diviicompetitors") @@
    ("divITotalSolutionsSubmitted" :> "divitotalsolutionssubmitted") @@
    ("divIAverageSolutionsSubmitted" :> "diviaveragesolutionssubmitted") @@
    ("divIITotalSolutionsSubmitted" :> "diviitotalsolutionssubmitted") @@
    ("divIIAverageSolutionsSubmitted" :> "diviiaveragesolutionssubmitted") @@
    ("divITotalSolutionsChallenged" :> "divitotalsolutionschallenged") @@
    ("divIAverageSolutionsChallenged" :> "diviaveragesolutionschallenged") @@
    ("divIITotalSolutionsChallenged" :> "diviitotalsolutionschallenged") @@
    ("divIIAverageSolutionsChallenged" :> "diviiaveragesolutionschallenged") @@
    ("submissionEndDate" :> "submissionenddate") @@
    ("SUBMISSIONENDDATE" :> "submissionenddate") @@ ("Name" :> "name") @@
    ("registrationStartTime" :> "registrationstarttime") @@
    ("REGISTRATIONSTARTTIME" :> "registrationstarttime") @@
    ("registrationEndTime" :> "registrationendtime") @@
    ("codingStartTime" :> "codingstarttime") @@ ("codingEndTime" :> "codingendtime") @@
    ("CodingEndTime" :> "codingendtime") @@
    ("intermissionStartTime" :> "intermissionstarttime") @@
    ("intermissionEndTime" :> "intermissionendtime") @@
    ("challengeStartTime" :> "challengestarttime") @@
    ("challengeEndTime" :> "challengeendtime") @@
    ("systestStartTime" :> "systeststarttime") @@ ("systestEndTime" :> "systestendtime") @@
    ("problemId" :> "problemid") @@ ("PROBLEMID" :> "problemid") @@
    ("problemName" :> "problemname") @@ ("problemType" :> "problemtype") @@
    ("myPoints" :> "mypoints") @@ ("MyPoints" :> "mypoints") @@
    ("ASC" :> "asc") @@ ("Desc" :> "desc") @@ ("DESC" :> "desc") @@
    ("SRM" :> "srm") @@ ("ACTIVE" :> "active") @@ ("UPCOMING" :> "upcoming") @@
    ("Past" :> "past")

\* String.prototype.toLowerCase over the strings of the model
toLowerCase(s) == IF s \in DOMAIN LowerMap THEN LowerMap[s] ELSE s

UpperMap ==
    ("active" :> "ACTIVE") @@ ("upcoming" :> "UPCOMING") @@ ("Past" :> "PAST") @@
    ("Upcoming" :> "UPCOMING")

\* String.prototype.toUpperCase over the strings of the model
toUpperCase(s) == IF s \in DOMAIN UpperMap THEN UpperMap[s] ELSE s

(***************************************************************************)
(* Allow-lists.                                                            *)
(***************************************************************************)
ALLOWABLE_SORT_COLUMN ==
    << "roundId", "name", "startDate", "totalCompetitors", "divICompetitors",
       "divIICompetitors", "divITotalSolutionsSubmitted", "divIAverageSolutionsSubmitted",
       "divIITotalSolutionsSubmitted", "divIIAverageSolutionsSubmitted",
       "divITotalSolutionsChallenged", "divIAverageSolutionsChallenged",
       "divIITotalSolutionsChallenged", "divIIAverageSolutionsChallenged",
       "submissionEndDate" >>

ALLOWABLE_SCHEDULE_SORT_COLUMN ==
    << "registrationStartTime", "registrationEndTime", "codingStartTime", "codingEndTime",
       "intermissionStartTime", "intermissionEndTime", "challengeStartTime",
       "challengeEndTime", "systestStartTime", "systestEndTime" >>

VALID_PRACTICE_PROBLEMS_SORT_COLUMN ==
    << "problemId", "problemName", "problemType", "difficulty", "points", "status",
       "myPoints" >>

VALID_ROUND_STATUS == <<"f", "a", "p">>
VALID_ROUND_TYPES == <<"Single Round Match", "Tournament Round", "Long Round">>
VALID_PRACTICE_PROBLEMS_STATUS == <<"new", "viewed", "solved">>
VALID_PRACTICE_PROBLEMS_DIFFICULTY == <<"easy", "medium", "hard">>
VALID_PRACTICE_PROBLEMS_TYPE == <<"single", "team", "long">>

ListType == [ACTIVE |-> "ACTIVE", UPCOMING |-> "UPCOMING"]

Range(list) == {list[i] : i \in DOMAIN list}

(***************************************************************************)
(* Errors and the validators of the helper.                                *)
(***************************************************************************)
Null == [kind |-> "null", field |-> ""]
IllegalArgumentError(name) == [kind |-> "IllegalArgumentError", field |-> name]
UnauthorizedError == [kind |-> "UnauthorizedError", field |-> ""]
ForbiddenError == [kind |-> "ForbiddenError", field |-> ""]
StoreError == [kind |-> "StoreError", field |-> ""]
\* what the request is answered with when no store is connected
NoConnectionError == [kind |-> "NoConnection", field |-> ""]

\* a || b for two errors
OrErr(a, b) == IF a # Null THEN a ELSE b

RECURSIVE FirstError(_)
\* e1 || e2 || ... for a sequence of errors
FirstError(es) ==
    IF es = <<>> THEN Null
    ELSE IF Head(es) # Null THEN Head(es) ELSE FirstError(Tail(es))

getLowerCaseList(list) == [i \in DOMAIN list |-> toLowerCase(list[i])]

checkDefined(x, name) ==
    IF x.t = "undefined" THEN IllegalArgumentError(name) ELSE Null

checkInteger(x, name) ==
    IF x.t = "int" \/ x.t = "big" THEN Null ELSE IllegalArgumentError(name)

checkMaxNumber(x, max, name) ==
    IF NumGreater(x, max) THEN IllegalArgumentError(name) ELSE Null

checkPageIndex(x, name) ==
    OrErr(checkInteger(x, name),
          IF x.t = "int" /\ x.v <= 0 /\ x.v # -1 THEN IllegalArgumentError(name) ELSE Null)

checkPositiveInteger(x, name) ==
    OrErr(checkInteger(x, name),
          IF x.t = "int" /\ x.v <= 0 THEN IllegalArgumentError(name) ELSE Null)

checkMaxInt(x, name) == checkMaxNumber(x, MAX_INT, name)

checkContains(list, s, name) ==
    IF s \in Range(list) THEN Null ELSE IllegalArgumentError(name)

checkSortColumn(list, s) ==
    IF s \in Range(getLowerCaseList(list)) THEN Null ELSE IllegalArgumentError("sortColumn")

checkArgument(ok, name) == IF ok THEN Null ELSE IllegalArgumentError(name)

checkNonNegativeInteger(x, name) ==
    OrErr(checkInteger(x, name),
          IF x.t = "int" /\ x.v < 0 THEN IllegalArgumentError(name) ELSE Null)

checkSubset(subset, set, name) ==
    IF Range(subset) \subseteq Range(set) THEN Null ELSE IllegalArgumentError(name)

validateDate(x, name) == IF x.t = "date" THEN Null ELSE IllegalArgumentError(name)

\* an error with the message msg when startDate is later than endDate
checkDates(startDate, endDate, msg) ==
    IF startDate.v > endDate.v THEN IllegalArgumentError(msg) ELSE Null

checkMember(caller) == IF caller = "anon" THEN UnauthorizedError ELSE Null

\* storage column of a public column name
ColumnMap ==
    ("roundid" :> "round_id") @@ ("name" :> "name") @@ ("startdate" :> "start_date") @@
    ("submissionenddate" :> "end_date") @@
    ("totalcompetitors" :> "total_competitors") @@
    ("divicompetitors" :> "div_i_competitors") @@
    ("diviicompetitors" :> "div_ii_competitors") @@
    ("divitotalsolutionssubmitted" :> "div_i_total_solutions_submitted") @@
    ("diviaveragesolutionssubmitted" :> "div_i_average_solutions_submitted") @@
    ("diviitotalsolutionssubmitted" :> "div_ii_total_solutions_submitted") @@
    ("diviiaveragesolutionssubmitted" :> "div_ii_average_solutions_submitted") @@
    ("divitotalsolutionschallenged" :> "div_i_total_solutions_challenged") @@
    ("diviaveragesolutionschallenged" :> "div_i_average_solutions_challenged") @@
    ("diviitotalsolutionschallenged" :> "div_ii_total_solutions_challenged") @@
    ("diviiaveragesolutionschallenged" :> "div_ii_average_solutions_challenged") @@
    ("registrationstarttime" :> "registration_start_time") @@
    ("registrationendtime" :> "registration_end_time") @@
    ("codingstarttime" :> "coding_start_time") @@
    ("codingendtime" :> "coding_end_time") @@
    ("intermissionstarttime" :> "intermission_start_time") @@
    ("intermissionendtime" :> "intermission_end_time") @@
    ("challengestarttime" :> "challenge_start_time") @@
    ("challengeendtime" :> "challenge_end_time") @@
    ("systeststarttime" :> "systest_start_time") @@
    ("systestendtime" :> "systest_end_time") @@
    ("problemid" :> "problem_id") @@ ("problemname" :> "problem_name") @@
    ("problemtype" :> "problem_type") @@ ("mypoints" :> "my_points")

getSortColumnDBName(apiName) ==
    IF toLowerCase(apiName) \in DOMAIN ColumnMap
    THEN ColumnMap[toLowerCase(apiName)] ELSE apiName

(***************************************************************************)
(* The store.  The count query answers the number of matching rows, the    *)
(* data query the rows of the window [firstRowIndex, firstRowIndex +       *)
(* pageSize); rows are named by their position 1..rows.                    *)
(***************************************************************************)
countRows(n) == n

dataRows(n, first, size) ==
    LET from == IF first < 0 THEN 0 ELSE first
        left == IF n - from <= 0 THEN 0 ELSE n - from
        len == IF size < left THEN size ELSE left
    IN [i \in 1..len |-> from + i]

(***************************************************************************)
(* Pagination and sorting, as the three listing handlers compute them.     *)
(***************************************************************************)
NoSqlParams == [firstRowIndex |-> -1, pageSize |-> -1, sortColumn |-> "", sortOrder |-> ""]
NoResults == [got |-> {}, count |-> -1, data |-> <<>>]
NoResponse == [total |-> -1, pageIndex |-> 0, pageSize |-> 0, data |-> <<>>]

\* if (pageIndex === -1) { pageIndex = 1; pageSize = MAX_INT; }
(***************************************************************************)
(* The product of two JS numbers that hold integers.  The integers of the  *)
(* model end at MAX_INT: a product whose magnitude is beyond MAX_INT is    *)
(* held as MAX_INT with its sign, and fits(a, b) tells whether a * b is     *)
(* within MAX_INT.                                                         *)
(***************************************************************************)
abs(x) == IF x < 0 THEN -x ELSE x
fits(a, b) == a = 0 \/ b = 0 \/ abs(b) <= MAX_INT \div abs(a)
times(a, b) ==
    IF fits(a, b) THEN a * b
    ELSE IF (a < 0) = (b < 0) THEN MAX_INT ELSE -MAX_INT

(***************************************************************************)
(* Faulty variants of the paging code; each property below that is about   *)
(* the paging code must tell the code from its variant.                    *)
(***************************************************************************)
\* the offset of the page after the requested one
firstRowIndex_nextPage(pi, ps) == times(pi.v, ps.v)

\* an envelope that echoes the page size handed to the queries
searchEnvelope_echo(params, pi, ps, res) ==
    IF Len(res.data) = 0
    THEN [total |-> 0, pageIndex |-> pi.v, pageSize |-> ps.v, data |-> <<>>]
    ELSE [total |-> res.count, pageIndex |-> pi.v, pageSize |-> ps.v, data |-> res.data]

\* an envelope without the short cut for an empty page
scheduleEnvelope_counted(params, pi, ps, res) ==
    [total |-> res.count, pageIndex |-> pi.v,
     pageSize |-> IF NumEq(Number(params.pageIndex), -1) THEN res.count ELSE ps.v,
     data |-> res.data]

\* an envelope whose total is the number of rows of the page
practiceEnvelope_pageTotal(pi, ps, res) ==
    [total |-> Len(res.data), pageIndex |-> pi.v, pageSize |-> ps.v, data |-> res.data]

pageWindow(pi, ps) ==
    IF NumEq(pi, -1) THEN [pageIndex |-> Num(1), pageSize |-> Num(MAX_INT)]
    ELSE [pageIndex |-> pi, pageSize |-> ps]

\* (pageIndex - 1) * pageSize
firstRowIndex(pi, ps) == times(pi.v - 1, ps.v)

searchPageIndex(params) == Number(OrDefault(params.pageIndex, 1))
searchPageSize(params) == Number(OrDefault(params.pageSize, DEFAULT_PAGE_SIZE))

searchSortColumn(params) ==
    LET sc == toLowerCase(StrOrDefault(params.sortColumn, "roundId"))
    IN IF sc = "submissionenddate" THEN "roundid" ELSE sc

searchSortOrder(params) ==
    IF params.sortOrder = undefined /\ searchSortColumn(params) = "roundid"
    THEN "desc"
    ELSE toLowerCase(StrOrDefault(params.sortOrder, "asc"))

searchListType(params) == toUpperCase(StrOrDefault(params.listType, "ACTIVE"))

searchStatus(params) == IF searchListType(params) = ListType.ACTIVE THEN "A" ELSE "F"

\* '%' + params.challengeName.toLowerCase() + '%'; throws on an undefined challengeName
searchThrows(params) == params.challengeName = undefined

searchChallengeName(params) == "%" \o toLowerCase(params.challengeName) \o "%"

searchValidate(params) ==
    LET pi == searchPageIndex(params)
        ps == searchPageSize(params)
    IN FirstError(<<
        IF params.pageIndex.t # "undefined" /\ ~NumEq(pi, -1)
            THEN checkDefined(params.pageSize, "pageSize") ELSE Null,
        checkMaxNumber(pi, MAX_INT, "pageIndex"),
        checkMaxNumber(ps, MAX_INT, "pageSize"),
        checkPageIndex(pi, "pageIndex"),
        checkPositiveInteger(ps, "pageSize"),
        checkContains(<<"asc", "desc">>, searchSortOrder(params), "sortOrder"),
        checkContains(<<ListType.ACTIVE, ListType.UPCOMING>>, searchListType(params), "listType"),
        checkArgument(Len(searchChallengeName(params)) <= CHALLENGE_NAME_MAX, "challengeName"),
        checkContains(getLowerCaseList(ALLOWABLE_SORT_COLUMN), searchSortColumn(params),
                      "sortColumn") >>)

searchSqlParams(params, pi, ps, sc, so) ==
    [firstRowIndex |-> firstRowIndex(pi, ps),
     pageSize |-> ps.v,
     sortColumn |-> getSortColumnDBName(sc),
     sortOrder |-> so,
     challengeName |-> searchChallengeName(params),
     status |-> searchStatus(params)]

searchEnvelope(params, pi, ps, res) ==
    IF Len(res.data) = 0
    THEN [total |-> 0, pageIndex |-> pi.v,
          pageSize |-> IF NumEq(Number(params.pageIndex), -1) THEN 0 ELSE ps.v,
          data |-> <<>>]
    ELSE [total |-> res.count, pageIndex |-> pi.v,
          pageSize |-> IF NumEq(Number(params.pageIndex), -1) THEN res.count ELSE ps.v,
          data |-> res.data]

schedulePageIndex(params) == Number(OrDefault(params.pageIndex, 1))
schedulePageSize(params) == Number(OrDefault(params.pageSize, DEFAULT_PAGE_SIZE))

scheduleSortColumn(params) == toLowerCase(StrOrDefault(params.sortColumn, "registrationStartTime"))

scheduleSortOrder(params) ==
    IF params.sortOrder = undefined /\ scheduleSortColumn(params) = "registrationstarttime"
    THEN "desc"
    ELSE toLowerCase(StrOrDefault(params.sortOrder, "asc"))

\* a validatePhaseTime that checks the bounds of a pair one by one only
validatePhaseTime_unordered(err, phaseTimeBefore, timeBeforeStr, phaseTimeAfter, timeEndStr) ==
    LET e1 == IF phaseTimeBefore # JsUndefined
              THEN OrErr(err, validateDate(phaseTimeBefore, timeBeforeStr)) ELSE err
    IN IF phaseTimeAfter # JsUndefined
       THEN OrErr(e1, validateDate(phaseTimeAfter, timeEndStr)) ELSE e1

validatePhaseTime(err, phaseTimeBefore, timeBeforeStr, phaseTimeAfter, timeEndStr) ==
    LET e1 == IF phaseTimeBefore # JsUndefined
              THEN OrErr(err, validateDate(phaseTimeBefore, timeBeforeStr)) ELSE err
        e2 == IF phaseTimeAfter # JsUndefined
              THEN OrErr(e1, validateDate(phaseTimeAfter, timeEndStr)) ELSE e1
    IN IF phaseTimeAfter # JsUndefined /\ phaseTimeBefore # JsUndefined
       THEN IF e2 # Null THEN e2
            ELSE checkDates(phaseTimeAfter, phaseTimeBefore,
                            timeEndStr \o " should be earlier than " \o timeBeforeStr)
       ELSE e2

\* the phase times, in the order checkPhaseTimes goes through them
PhaseTimes ==
    << "registrationStartTime", "registrationEndTime", "codingStartTime", "codingEndTime",
       "intermissionStartTime", "intermissionEndTime", "challengeStartTime",
       "challengeEndTime", "systestStartTime", "systestEndTime" >>

\* the error is handed from one validatePhaseTime to the next, and each keeps
\* an error it is handed: the result is the error handed in or else the
\* error of the first pair that has one
checkPhaseTimes(err, params) ==
    LET es == [i \in DOMAIN PhaseTimes |->
                validatePhaseTime(Null, params[PhaseTimes[i] \o "Before"],
                                  PhaseTimes[i] \o "Before",
                                  params[PhaseTimes[i] \o "After"],
                                  PhaseTimes[i] \o "After")]
        bad == {i \in DOMAIN es : es[i] # Null}
    IN IF err # Null THEN err
       ELSE IF bad = {} THEN Null
       ELSE es[CHOOSE i \in bad : \A j \in bad : i <= j]

scheduleValidate(params) ==
    LET pi == schedulePageIndex(params)
        ps == schedulePageSize(params)
    IN checkPhaseTimes(
        FirstError(<<
            IF params.pageIndex.t # "undefined" /\ ~NumEq(pi, -1)
                THEN checkDefined(params.pageSize, "pageSize") ELSE Null,
            checkMaxNumber(pi, MAX_INT, "pageIndex"),
            checkMaxNumber(ps, MAX_INT, "pageSize"),
            checkPageIndex(pi, "pageIndex"),
            checkPositiveInteger(ps, "pageSize"),
            checkContains(<<"asc", "desc">>, scheduleSortOrder(params), "sortOrder"),
            checkContains(getLowerCaseList(ALLOWABLE_SCHEDULE_SORT_COLUMN),
                          scheduleSortColumn(params), "sortColumn"),
            IF params.statuses # JsUndefined
                THEN checkSubset(params.statuses.v, VALID_ROUND_STATUS, "statuses") ELSE Null,
            IF params.types # JsUndefined
                THEN checkSubset(params.types.v, VALID_ROUND_TYPES, "types") ELSE Null >>),
        params)

scheduleSqlParams(pi, ps, sc, so) ==
    [firstRowIndex |-> firstRowIndex(pi, ps),
     pageSize |-> ps.v,
     sortColumn |-> getSortColumnDBName(sc),
     sortOrder |-> so]

scheduleEnvelope(params, pi, ps, res) ==
    IF Len(res.data) = 0
    THEN [total |-> 0, pageIndex |-> pi.v,
          pageSize |-> IF NumEq(Number(params.pageIndex), -1) THEN 0 ELSE ps.v,
          data |-> <<>>]
    ELSE [total |-> res.count, pageIndex |-> pi.v,
          pageSize |-> IF NumEq(Number(params.pageIndex), -1) THEN res.count ELSE ps.v,
          data |-> res.data]

practicePageIndex(params) == Number(OrDefault(params.pageIndex, 1))
practicePageSize(params) == Number(OrDefault(params.pageSize, PRACTICE_PAGE_SIZE))
practiceSortColumn(params) == StrOrDefault(params.sortColumn, "problemId")
practiceSortOrder(params) == StrOrDefault(params.sortOrder, "asc")

\* a > b for two JS numbers that are integers or not numbers
NumGt(a, b) == a.t = "int" /\ b.t = "int" /\ a.v > b.v

\* the check of the points bounds of getPracticeProblems
practicePoints(params) ==
    LET lower == Number(OrDefault(params.pointsLowerBound, 0))
        upper == Number(OrDefault(params.pointsUpperBound, MAX_INT))
    IN IF params.pointsLowerBound = JsUndefined /\ params.pointsUpperBound = JsUndefined
       THEN Null
       ELSE FirstError(<<
                checkMaxInt(lower, "pointsLowerBound"),
                checkNonNegativeInteger(lower, "pointsLowerBound"),
                checkPositiveInteger(upper, "pointsUpperBound"),
                checkMaxInt(upper, "pointsUpperBound"),
                IF NumGt(lower, upper) THEN IllegalArgumentError("pointsLowerBound") ELSE Null >>)

\* the check of the myPoints bounds of getPracticeProblems
practiceMyPoints(params) ==
    LET lower == Number(OrDefault(params.myPointsLowerBound, 0))
        upper == Number(OrDefault(params.myPointsUpperBound, MAX_INT))
    IN IF params.myPointsLowerBound = JsUndefined /\ params.myPointsUpperBound = JsUndefined
       THEN Null
       ELSE FirstError(<<
                checkNonNegativeInteger(lower, "myPointsLowerBound"),
                checkMaxInt(lower, "myPointsLowerBound"),
                checkPositiveInteger(upper, "myPointsUpperBound"),
                checkMaxInt(upper, "myPointsUpperBound"),
                IF NumGt(lower, upper) THEN IllegalArgumentError("myPointsLowerBound") ELSE Null >>)

\* a practiceLists that does not check the difficulty
practiceLists_lax(params) ==
    FirstError(<<
        IF params.statuses # JsUndefined
            THEN checkSubset(params.statuses.v, VALID_PRACTICE_PROBLEMS_STATUS, "statuses")
            ELSE Null,
        IF params.problemName # JsUndefined /\ Len(params.problemName.v) > PROBLEM_NAME_MAX
            THEN IllegalArgumentError("problemName") ELSE Null,
        IF params.problemTypes # JsUndefined
            THEN checkSubset(params.problemTypes.v, VALID_PRACTICE_PROBLEMS_TYPE, "problemTypes")
            ELSE Null >>)

\* the checks of statuses, problemName, difficulty and problemTypes
practiceLists(params) ==
    FirstError(<<
        IF params.statuses # JsUndefined
            THEN checkSubset(params.statuses.v, VALID_PRACTICE_PROBLEMS_STATUS, "statuses")
            ELSE Null,
        IF params.problemName # JsUndefined /\ Len(params.problemName.v) > PROBLEM_NAME_MAX
            THEN IllegalArgumentError("problemName") ELSE Null,
        IF params.difficulty # JsUndefined
            THEN checkSubset(params.difficulty.v, VALID_PRACTICE_PROBLEMS_DIFFICULTY,
                             "difficulty")
            ELSE Null,
        IF params.problemTypes # JsUndefined
            THEN checkSubset(params.problemTypes.v, VALID_PRACTICE_PROBLEMS_TYPE, "problemTypes")
            ELSE Null >>)

practiceValidate(params, caller) ==
    FirstError(<<
        checkPageIndex(practicePageIndex(params), "pageIndex"),
        checkPositiveInteger(practicePageSize(params), "pageSize"),
        checkMaxInt(practicePageSize(params), "pageSize"),
        checkContains(<<"asc", "desc">>, toLowerCase(practiceSortOrder(params)), "sortOrder"),
        checkSortColumn(VALID_PRACTICE_PROBLEMS_SORT_COLUMN,
                        toLowerCase(practiceSortColumn(params))),
        checkMember(caller),
        practiceLists(params),
        practicePoints(params),
        practiceMyPoints(params) >>)

\* String.prototype.toLowerCase and trim over the characters and the list
\* elements of the model
lowerText(s) == [i \in DOMAIN s |-> IF s[i] = "A" THEN "a" ELSE s[i]]
trim(s) == IF s = " f" THEN "f" ELSE s

ROUND_TYPES ==
    ("single round match" :> 1) @@ ("tournament round" :> 2) @@ ("long round" :> 10)

\* api.config.tcConfig.databaseTimezoneIdentifier
databaseTimezoneIdentifier == "-0400"

\* s.split(',').map(function (s) { return "'" + s.toLowerCase().trim() + "'"; }).join(',')
quotedList(x) ==
    IF x.t # "csv" THEN x
    ELSE [t |-> "quoted", v |-> [i \in DOMAIN x.v |-> trim(toLowerCase(x.v[i]))]]

\* '%' + parameters.problemName.toLowerCase() + '%'
likePattern(x) ==
    IF x.t # "str" THEN x ELSE [t |-> "like", v |-> <<"%">> \o lowerText(x.v) \o <<"%">>]

\* parameters.types.split(',').map(function (s) { return ROUND_TYPES[...]; }).join(',')
roundTypeList(x) ==
    IF x.t # "csv" THEN x
    ELSE [t |-> "numbers",
          v |-> [i \in DOMAIN x.v |->
                    IF trim(toLowerCase(x.v[i])) \in DOMAIN ROUND_TYPES
                    THEN Num(ROUND_TYPES[trim(toLowerCase(x.v[i]))]) ELSE JsUndefined]]

\* moment(x).zone(SCHEDULE_TIMEZONE).format(SCHEDULE_DATE_FORMAT_DB)
dbTime(x, zone) == [t |-> "dbtime", v |-> x.v, zone |-> zone]

\* the clauses that helper.editSql splices: one for each parameter that is
\* not undefined, in the order of the code, with the value spliced
spliced(clauses) == SelectSeq(clauses, LAMBDA c : c.given # JsUndefined)
Clause(parameters, on, value) == [on |-> on, given |-> parameters[on], value |-> value]

addFilter(parameters) ==
    spliced(<<Clause(parameters, "problemId", Number(parameters.problemId)),
              Clause(parameters, "problemName", likePattern(parameters.problemName)),
              Clause(parameters, "problemTypes", quotedList(parameters.problemTypes)),
              Clause(parameters, "difficulty", quotedList(parameters.difficulty)),
              Clause(parameters, "pointsLowerBound", Number(parameters.pointsLowerBound)),
              Clause(parameters, "pointsUpperBound", Number(parameters.pointsUpperBound)),
              Clause(parameters, "statuses", quotedList(parameters.statuses)),
              Clause(parameters, "myPointsLowerBound", Number(parameters.myPointsLowerBound)),
              Clause(parameters, "myPointsUpperBound", Number(parameters.myPointsUpperBound))>>)

addScheduleFilter(parameters, zone) ==
    spliced(<<Clause(parameters, "statuses", quotedList(parameters.statuses)),
              Clause(parameters, "types", roundTypeList(parameters.types))>>
            \o [i \in 1..(2 * Len(PhaseTimes)) |->
                    LET on == PhaseTimes[(i + 1) \div 2]
                                \o (IF i % 2 = 1 THEN "Before" ELSE "After")
                    IN Clause(parameters, on, dbTime(parameters[on], zone))])

\* connection.params after the validation of getSRMSchedule: statuses is set
\* to 'f' when the request has none
scheduleParams(params) ==
    IF params.statuses = JsUndefined THEN [params EXCEPT !.statuses = Csv(<<"f">>)] ELSE params

practiceSqlParams(pi, ps, sc, so) ==
    [firstRowIndex |-> firstRowIndex(pi, ps),
     pageSize |-> ps.v,
     sortColumn |-> getSortColumnDBName(sc),
     sortOrder |-> toLowerCase(so)]

practiceEnvelope(pi, ps, res) ==
    [total |-> res.count, pageIndex |-> pi.v, pageSize |-> ps.v, data |-> res.data]

(***************************************************************************)
(* Requests.                                                               *)
(***************************************************************************)
FilterFields ==
    {"statuses", "types", "problemId", "problemName", "difficulty", "problemTypes",
     "pointsLowerBound", "pointsUpperBound", "myPointsLowerBound", "myPointsUpperBound"}
    \cup {PhaseTimes[i] \o "Before" : i \in DOMAIN PhaseTimes}
    \cup {PhaseTimes[i] \o "After" : i \in DOMAIN PhaseTimes}

\* no filter parameter given
NoFilters == [f \in FilterFields |-> JsUndefined]

ListParams(pi, ps, sc, so, lt, cn) ==
    [pageIndex |-> pi, pageSize |-> ps, sortColumn |-> sc, sortOrder |-> so,
     listType |-> lt, challengeName |-> cn] @@ NoFilters

ListRequest(ep, p, caller) == [ep |-> ep, params |-> p, caller |-> caller, db |-> TRUE]

\* the request r on a connection without dbConnectionMap
Unconnected(r) == [r EXCEPT !.db = FALSE]

ListEndpoints == {"searchSRMChallenges", "getSRMSchedule", "getPracticeProblems"}

PageIndexInputs ==
    {RawUndef, RawEmpty, RawText, RawFrac(1), RawBig} \cup {RawInt(n) : n \in -1..MaxPageIndex}
PageSizeInputs ==
    {RawUndef, RawEmpty, RawText, RawFrac(1), RawBig} \cup {RawInt(n) : n \in -1..MaxPageSize}

SortColumnInputs(ep) ==
    CASE ep = "searchSRMChallenges" ->
            Range(ALLOWABLE_SORT_COLUMN) \cup
            {undefined, "ROUNDID", "Name", "SUBMISSIONENDDATE", "bogus", "registrationStartTime"}
      [] ep = "getSRMSchedule" ->
            Range(ALLOWABLE_SCHEDULE_SORT_COLUMN) \cup
            {undefined, "REGISTRATIONSTARTTIME", "CodingEndTime", "bogus", "roundId"}
      [] OTHER ->
            Range(VALID_PRACTICE_PROBLEMS_SORT_COLUMN) \cup
            {undefined, "PROBLEMID", "MyPoints", "bogus", "roundId"}

SortOrderInputs == {undefined, "asc", "desc", "ASC", "Desc", "bogus"}

\* requests that vary the page window
PageRequests ==
    {ListRequest(ep, ListParams(pi, ps, undefined, undefined, undefined, "srm"), "member") :
        ep \in ListEndpoints, pi \in PageIndexInputs, ps \in PageSizeInputs}

\* requests that vary the sorting
SortRequests ==
    UNION {{ListRequest(ep, ListParams(RawUndef, RawUndef, sc, so, undefined, cn), "member") :
              sc \in SortColumnInputs(ep), so \in SortOrderInputs,
              cn \in IF ep = "searchSRMChallenges" THEN {undefined, "srm"} ELSE {undefined}} :
           ep \in ListEndpoints}

\* requests that vary the remaining parameters
OtherRequests ==
    {ListRequest("searchSRMChallenges",
                 ListParams(RawUndef, RawUndef, undefined, undefined, lt, cn), "member") :
        lt \in {undefined, "active", "Upcoming", "Past"},
        cn \in {"", "SRM", "aaaaaaaaaaaaaaaaaaaaaaaaaaaaaa", "aaaaaaaaaaaaaaaaaaaaaaaaaaaaaaa"}}
    \cup
    {ListRequest("getPracticeProblems",
                 ListParams(pi, RawUndef, sc, undefined, undefined, undefined), "anon") :
        pi \in {RawUndef, RawInt(1)}, sc \in {undefined, "bogus"}}

NoListParams == ListParams(RawUndef, RawUndef, undefined, undefined, undefined, undefined)

PhaseInputs == {JsUndefined, BadDate, Date(1), Date(2)}

\* schedule requests that vary the bounds of one phase time, of two phase
\* times, and of one phase time next to a pageSize that is no number
PhaseRequests ==
    {ListRequest("getSRMSchedule",
                 [NoListParams EXCEPT ![PhaseTimes[i] \o "Before"] = b,
                                      ![PhaseTimes[i] \o "After"] = a], "member") :
        i \in DOMAIN PhaseTimes, b \in PhaseInputs, a \in PhaseInputs}
    \cup
    {ListRequest("getSRMSchedule",
                 [NoListParams EXCEPT !.registrationStartTimeBefore = b1,
                                      !.registrationStartTimeAfter = Date(2),
                                      !.codingEndTimeBefore = Date(1),
                                      !.codingEndTimeAfter = a2,
                                      !.pageSize = ps], "member") :
        b1 \in {Date(1), Date(2)}, a2 \in {BadDate, Date(1), Date(2)},
        ps \in {RawUndef, RawText}}

StatusListInputs ==
    {JsUndefined, Csv(<<"f">>), Csv(<<"a", "p">>), Csv(<<"f", "x">>), Csv(<<"">>)}
TypeListInputs ==
    {JsUndefined, Csv(<<"Single Round Match">>), Csv(<<"Long Round", "Tournament Round">>),
     Csv(<<"Long Round", "bogus">>)}
PracticeListInputs(list) ==
    {JsUndefined, Csv(<<list[1]>>), Csv(<<list[3], list[2]>>), Csv(<<list[1], "bogus">>),
     Csv(<<"f">>)}
ProblemNameInputs ==
    {Text(<<>>), Text(<<"A", "a">>), Text(<<"a", Apostrophe>>), Text(<<Quote, "a">>),
     Text(Pad(PROBLEM_NAME_MAX)), Text(Pad(PROBLEM_NAME_MAX + 1)),
     Text(<<Apostrophe>> \o Pad(PROBLEM_NAME_MAX))}
BoundInputs == {RawUndef, RawText, RawInt(-1), RawInt(0), RawInt(1), RawInt(2)}

\* schedule and practice requests that vary the comma-delimited lists
CsvRequests ==
    {ListRequest("getSRMSchedule",
                 [NoListParams EXCEPT !.statuses = s, !.types = ty, !.sortOrder = so],
                 "member") :
        s \in StatusListInputs, ty \in TypeListInputs, so \in {undefined, "bogus"}}
    \cup
    {ListRequest("getPracticeProblems",
                 [NoListParams EXCEPT !.statuses = s, !.difficulty = d, !.problemTypes = ty],
                 "member") :
        s \in PracticeListInputs(VALID_PRACTICE_PROBLEMS_STATUS),
        d \in PracticeListInputs(VALID_PRACTICE_PROBLEMS_DIFFICULTY),
        ty \in PracticeListInputs(VALID_PRACTICE_PROBLEMS_TYPE)}
    \cup
    {ListRequest("getPracticeProblems", [NoListParams EXCEPT !.difficulty = d], "anon") :
        d \in PracticeListInputs(VALID_PRACTICE_PROBLEMS_DIFFICULTY)}

\* practice requests that vary the name and the bounds
BoundRequests ==
    {ListRequest("getPracticeProblems", [NoListParams EXCEPT !.problemName = n], "member") :
        n \in ProblemNameInputs}
    \cup
    {ListRequest("getPracticeProblems",
                 [NoListParams EXCEPT !.problemId = i, !.problemName = n], "member") :
        i \in {RawText, RawInt(1)}, n \in {JsUndefined, Text(<<"A">>)}}
    \cup
    {ListRequest("getPracticeProblems",
                 [NoListParams EXCEPT !.pointsLowerBound = l, !.pointsUpperBound = u],
                 "member") : l \in BoundInputs, u \in BoundInputs}
    \cup
    {ListRequest("getPracticeProblems",
                 [NoListParams EXCEPT !.myPointsLowerBound = l, !.myPointsUpperBound = u],
                 "member") : l \in BoundInputs, u \in BoundInputs}

\* an integer above MAX_INT passes checkPageIndex of getPracticeProblems; its product
\* with pageSize is outside the integers of the model
\* requests for a large page or a page far from the first one
LargePageRequests ==
    {ListRequest(ep, ListParams(pi, ps, undefined, undefined, undefined, "srm"), "member") :
        ep \in {"searchSRMChallenges", "getSRMSchedule"},
        pi \in {RawInt(2), RawInt(3), RawInt(MAX_INT)},
        ps \in {RawInt(1), RawInt(2), RawInt(MAX_INT)}}

ListRequests ==
    {r \in PageRequests \cup LargePageRequests \cup SortRequests \cup OtherRequests
            \cup PhaseRequests \cup CsvRequests \cup BoundRequests :
        ~(r.ep = "getPracticeProblems" /\ r.params.pageIndex = RawBig)}

\* listing requests on a connection without dbConnectionMap
UnconnectedListRequests ==
    {Unconnected(r) : r \in {q \in OtherRequests \cup SortRequests :
                                q.params.pageIndex = RawUndef /\ q.params.pageSize = RawUndef}}

(***************************************************************************)
(* The listing handlers.                                                   *)
(***************************************************************************)
Reject(e) ==
    /\ error' = e
    /\ pc' = "done"
    /\ UNCHANGED <<sqlParams, filters, results, response, pending, issued>>

\* helper.handleNoConnection(api, connection, next): the request is answered at once
handleNoConnection ==
    /\ Reject(NoConnectionError)
    /\ UNCHANGED <<pageIndex, pageSize, sortColumn, sortOrder>>

\* searchSRMChallenges.run up to its first suspension
searchSRMChallenges_run ==
    /\ pc = "start"
    /\ req.ep = "searchSRMChallenges"
    /\ UNCHANGED <<req, rows, SCHEDULE_TIMEZONE, dirty, auto>>
    /\ IF ~req.db
       THEN handleNoConnection
       ELSE IF searchThrows(req.params)
       THEN /\ pc' = "crashed"
            /\ UNCHANGED <<pageIndex, pageSize, sortColumn, sortOrder, sqlParams, filters, results,
                           error, response, pending, issued>>
       ELSE LET e == searchValidate(req.params)
                w == pageWindow(searchPageIndex(req.params), searchPageSize(req.params))
                sc == searchSortColumn(req.params)
                so == searchSortOrder(req.params)
            IN /\ sortColumn' = sc
               /\ sortOrder' = so
               /\ IF e # Null
                  THEN /\ pageIndex' = searchPageIndex(req.params)
                       /\ pageSize' = searchPageSize(req.params)
                       /\ Reject(e)
                  ELSE /\ pageIndex' = w.pageIndex
                       /\ pageSize' = w.pageSize
                       /\ sqlParams' = searchSqlParams(req.params, w.pageIndex, w.pageSize, sc, so)
                       /\ UNCHANGED filters
                       /\ pending' = {"count", "data"}
                       /\ issued' = <<"get_srm_challenges_count", "get_srm_challenges">>
                       /\ pc' = "querying"
                       /\ UNCHANGED <<results, error, response>>

\* getSRMSchedule.run up to its first suspension
getSRMSchedule_run ==
    /\ pc = "start"
    /\ req.ep = "getSRMSchedule"
    /\ UNCHANGED <<req, rows, dirty, auto>>
    /\ SCHEDULE_TIMEZONE' = IF req.db THEN databaseTimezoneIdentifier ELSE SCHEDULE_TIMEZONE
    /\ IF ~req.db
       THEN handleNoConnection
       ELSE
       LET e == scheduleValidate(req.params)
           w == pageWindow(schedulePageIndex(req.params), schedulePageSize(req.params))
       IN /\ sortColumn' = scheduleSortColumn(req.params)
          /\ sortOrder' = scheduleSortOrder(req.params)
          /\ pageIndex' = w.pageIndex
          /\ pageSize' = w.pageSize
          /\ IF e # Null
             THEN Reject(e)
             ELSE /\ pending' = {"readData", "readCount"}
                  /\ issued' = <<"read get_srm_schedule", "read get_srm_schedule_count">>
                  /\ pc' = "reading"
                  /\ UNCHANGED <<sqlParams, filters, results, error, response>>

\* getPracticeProblems up to its first suspension
getPracticeProblems_run ==
    /\ pc = "start"
    /\ req.ep = "getPracticeProblems"
    /\ UNCHANGED <<req, rows, SCHEDULE_TIMEZONE, dirty, auto>>
    /\ IF ~req.db
       THEN handleNoConnection
       ELSE
       LET e == practiceValidate(req.params, req.caller)
       IN /\ sortColumn' = practiceSortColumn(req.params)
          /\ sortOrder' = practiceSortOrder(req.params)
          /\ pageIndex' = practicePageIndex(req.params)
          /\ pageSize' = practicePageSize(req.params)
          /\ IF e # Null
             THEN Reject(e)
             ELSE /\ pending' = {"readData", "readCount"}
                  /\ issued' = <<"read get_practice_problems", "read get_practice_problems_count">>
                  /\ pc' = "reading"
                  /\ UNCHANGED <<sqlParams, filters, results, error, response>>

\* a helper.readQuery completes; the second one composes and issues both queries
readQueryDone ==
    /\ pc \in {"reading", "done"}
    /\ req.ep \in {"getSRMSchedule", "getPracticeProblems"}
    /\ \E q \in pending \cap {"readData", "readCount"}, ok \in BOOLEAN :
        /\ UNCHANGED <<req, rows, SCHEDULE_TIMEZONE, dirty, auto, pageIndex, pageSize, sortColumn, sortOrder,
                       results, response>>
        /\ IF pc = "done"
           THEN /\ pending' = pending \ {q}
                /\ UNCHANGED <<pc, error, sqlParams, filters, issued>>
           ELSE IF ~ok
           THEN /\ pending' = pending \ {q}
                /\ error' = StoreError
                /\ pc' = "done"
                /\ UNCHANGED <<sqlParams, filters, issued>>
           ELSE IF pending # {q}
           THEN /\ pending' = pending \ {q}
                /\ UNCHANGED <<pc, error, sqlParams, filters, issued>>
           ELSE /\ sqlParams' =
                      IF req.ep = "getSRMSchedule"
                      THEN scheduleSqlParams(pageIndex, pageSize, sortColumn, sortOrder)
                      ELSE practiceSqlParams(pageIndex, pageSize, sortColumn, sortOrder)
                /\ filters' =
                      IF req.ep = "getSRMSchedule"
                      THEN addScheduleFilter(scheduleParams(req.params), SCHEDULE_TIMEZONE)
                      ELSE addFilter(req.params)
                /\ pending' = {"data", "count"}
                /\ issued' = issued \o <<"data", "count">>
                /\ pc' = "querying"
                /\ UNCHANGED error

Envelope(r, pi, ps, res) ==
    CASE r.ep = "searchSRMChallenges" -> searchEnvelope(r.params, pi, ps, res)
      [] r.ep = "getSRMSchedule" -> scheduleEnvelope(r.params, pi, ps, res)
      [] OTHER -> practiceEnvelope(pi, ps, res)

\* a join that builds the envelope as soon as the data query has completed
executeQueryDone_eager ==
    /\ pc \in {"querying", "done"}
    /\ req.ep \in ListEndpoints
    /\ \E q \in pending \cap {"count", "data"}, ok \in BOOLEAN :
        LET res == IF q = "count"
                   THEN [results EXCEPT !.got = @ \cup {q}, !.count = countRows(rows)]
                   ELSE [results EXCEPT
                            !.got = @ \cup {q},
                            !.data = dataRows(rows, sqlParams.firstRowIndex, sqlParams.pageSize)]
        IN
        /\ UNCHANGED <<req, rows, SCHEDULE_TIMEZONE, dirty, auto, pageIndex, pageSize, sortColumn, sortOrder,
                       sqlParams, filters, issued>>
        /\ pending' = pending \ {q}
        /\ IF pc = "done"
           THEN UNCHANGED <<pc, error, results, response>>
           ELSE IF ~ok
           THEN /\ error' = StoreError
                /\ pc' = "done"
                /\ UNCHANGED <<results, response>>
           ELSE /\ results' = res
                /\ UNCHANGED error
                /\ IF q = "data" \/ pending = {q}
                   THEN /\ response' = Envelope(req, pageIndex, pageSize, res)
                        /\ pc' = "done"
                   ELSE UNCHANGED <<pc, response>>

\* the count or the data query completes; the second one builds the envelope
executeQueryDone ==
    /\ pc \in {"querying", "done"}
    /\ req.ep \in ListEndpoints
    /\ \E q \in pending \cap {"count", "data"}, ok \in BOOLEAN :
        LET res == IF q = "count"
                   THEN [results EXCEPT !.got = @ \cup {q}, !.count = countRows(rows)]
                   ELSE [results EXCEPT
                            !.got = @ \cup {q},
                            !.data = dataRows(rows, sqlParams.firstRowIndex, sqlParams.pageSize)]
        IN
        /\ UNCHANGED <<req, rows, SCHEDULE_TIMEZONE, dirty, auto, pageIndex, pageSize, sortColumn, sortOrder,
                       sqlParams, filters, issued>>
        /\ pending' = pending \ {q}
        /\ IF pc = "done"
           THEN UNCHANGED <<pc, error, results, response>>
           ELSE IF ~ok
           THEN /\ error' = StoreError
                /\ pc' = "done"
                /\ UNCHANGED <<results, response>>
           ELSE /\ results' = res
                /\ UNCHANGED error
                /\ IF pending = {q}
                   THEN /\ response' = Envelope(req, pageIndex, pageSize, res)
                        /\ pc' = "done"
                   ELSE UNCHANGED <<pc, response>>

\* another client writes the store between the two queries of this request
StoreWrite ==
    /\ pc = "querying"
    /\ Cardinality(pending) = 1
    /\ \E n \in 0..MaxRows : n # rows /\ rows' = n
    /\ dirty' = TRUE
    /\ UNCHANGED <<req, pc, pageIndex, pageSize, sortColumn, sortOrder, sqlParams, filters, results,
                   error, response, pending, issued, auto, SCHEDULE_TIMEZONE>>

(***************************************************************************)
(* The admin write endpoints.  A text is a sequence of characters; the     *)
(* characters that matter are the double quote and one plain character.    *)
(***************************************************************************)
JsNull == [t |-> "null", v |-> 0]
JsArray == [t |-> "array", v |-> 0]
JsObject == [t |-> "object", v |-> 0]
\* the rows a query calls back with, n of them
Rows(n) == [t |-> "rows", v |-> n]
\* an array parameter
List(s) == [t |-> "list", v |-> s]

isNullOrUndefined(x) == x.t \in {"null", "undefined"}
\* !x for the value a task left in the results of async.auto
Falsy(x) == x.t \in {"null", "undefined", "nan"} \/ (x.t = "int" /\ x.v = 0)

\* parseInt(x, 10) of a raw parameter
parseInt(x) ==
    CASE x.t = "int" -> Num(x.v)
      [] x.t = "frac" -> Num(x.v)
      [] x.t = "big" -> [t |-> "big", v |-> 0]
      [] OTHER -> NaN

checkAdmin(caller) ==
    CASE caller = "anon" -> UnauthorizedError
      [] caller = "member" -> ForbiddenError
      [] OTHER -> Null

checkIdParameter(x, name) ==
    OrErr(checkInteger(x, name), OrErr(checkPositiveInteger(x, name), checkMaxInt(x, name)))

checkString(x, name) == IF x.t = "str" THEN Null ELSE IllegalArgumentError(name)

checkStringPopulated(x, name) ==
    IF x.t = "str" /\ Len(x.v) > 0 THEN Null ELSE IllegalArgumentError(name)

\* moment(a).isBefore(b)
isBefore(a, b) == a.v < b.v

checkExceedsLength(obj, length, name) ==
    IF Len(obj.v) > length THEN IllegalArgumentError(name) ELSE Null

\* a check of the quotes that lets every text pass
checkIllegalCharacters_lax(obj, name) == Null

\* a loop that takes every double quote for an unescaped one
scanStep_noescape(st, c) == IF st = "error" \/ c = Quote THEN "error" ELSE "none"

\* one turn of the loop of checkIllegalCharacters on the character c.  The state
\* of the loop is "pre" when the previous character is a quote that waits for
\* its pair, "none" when it is not, and "error" once the loop has returned the
\* error.
scanStep(st, c) ==
    CASE st = "error" -> "error"
      [] st = "pre" -> IF c = Quote THEN "none" ELSE "error"
      [] OTHER -> IF c = Quote THEN "pre" ELSE "none"

RECURSIVE scanQuotes(_, _, _, _)
\* the turns of the loop for the positions lo..hi, entered in state st; the
\* range is halved so that the evaluation stays shallow on a long text
scanQuotes(s, lo, hi, st) ==
    IF st = "error" \/ lo > hi THEN st
    ELSE IF lo = hi THEN scanStep(st, s[lo])
    ELSE scanQuotes(s, (lo + hi) \div 2 + 1, hi, scanQuotes(s, lo, (lo + hi) \div 2, st))

checkIllegalCharacters(obj, name) ==
    IF obj.v = <<Quote>> THEN IllegalArgumentError(name)
    ELSE IF scanQuotes(obj.v, 1, Len(obj.v), "none") # "none" THEN IllegalArgumentError(name)
    ELSE Null

(***************************************************************************)
(* What running the function of a task of async.auto does: it calls back   *)
(* with a value, calls back with an error, or starts a store call whose    *)
(* completion will call back.                                              *)
(***************************************************************************)
Ok(v) == [kind |-> "ok", v |-> v, e |-> Null, q |-> ""]
Err(e) == [kind |-> "err", v |-> JsUndefined, e |-> e, q |-> ""]
Io(q) == [kind |-> "io", v |-> JsUndefined, e |-> Null, q |-> q, a |-> JsUndefined]
\* a store call with the parameters a
IoWith(q, a) == [kind |-> "io", v |-> JsUndefined, e |-> Null, q |-> q, a |-> a]
OkUnless(e, v) == IF e # Null THEN Err(e) ELSE Ok(v)

\* a nullable text field of validateAndPrepareSRMContestApiArguments
nullableText(x, length, name) ==
    IF isNullOrUndefined(x) THEN Ok(JsNull)
    ELSE OkUnless(OrErr(checkString(x, name),
                        OrErr(checkExceedsLength(x, length, name),
                              checkIllegalCharacters(x, name))), x)

\* the start of a date pair
startOfPair(x, name) ==
    IF isNullOrUndefined(x) THEN Ok(JsNull) ELSE OkUnless(validateDate(x, name), x)

\* the message of the error of a date pair in the wrong order
doesNotPrecede(name) ==
    IF name = "endDate" THEN "startDate does not precede endDate."
    ELSE "adStart does not precede adEnd."

endOfPair_unordered(x, start, name) ==
    IF isNullOrUndefined(x) THEN Ok(JsNull) ELSE OkUnless(validateDate(x, name), x)

\* the end of a date pair, given the validated start
endOfPair(x, start, name) ==
    IF isNullOrUndefined(x) THEN Ok(JsNull)
    ELSE IF validateDate(x, name) # Null THEN Err(validateDate(x, name))
    ELSE IF ~Falsy(start) /\ ~isBefore(start, x)
    THEN Err(IllegalArgumentError(doesNotPrecede(name)))
    ELSE Ok(x)

\* validators[k] of validateAndPrepareSRMContestApiArguments
validators(k, params, res) ==
    CASE k = "id" ->
            IF checkIdParameter(parseInt(params.id), "id") # Null
            THEN Err(checkIdParameter(parseInt(params.id), "id"))
            ELSE Io("get_srm_contest")
      [] k = "contestId" ->
            OkUnless(checkIdParameter(parseInt(params.contestId), "contestId"),
                     parseInt(params.contestId))
      [] k = "name" ->
            OkUnless(OrErr(checkStringPopulated(params.name, "name"),
                           OrErr(checkExceedsLength(params.name, 50, "name"),
                                 checkIllegalCharacters(params.name, "name"))),
                     params.name)
      [] k = "startDate" -> startOfPair(params.startDate, "startDate")
      [] k = "endDate" -> endOfPair(params.endDate, res["startDate"], "endDate")
      [] k = "status" ->
            IF isNullOrUndefined(params.status) THEN Ok(JsNull)
            ELSE OkUnless(OrErr(checkStringPopulated(params.status, "status"),
                                checkArgument(Len(params.status.v) = 1
                                              /\ params.status.v[1] \in {"A", "F", "P", "I"},
                                              "status")),
                          params.status)
      [] k = "groupId" ->
            IF isNullOrUndefined(params.groupId) THEN Ok(JsNull)
            ELSE IF checkInteger(parseInt(params.groupId), "groupId") # Null
            THEN Err(checkInteger(parseInt(params.groupId), "groupId"))
            ELSE Io("get_group")
      [] k = "adText" -> nullableText(params.adText, 250, "adText")
      [] k = "adStart" -> startOfPair(params.adStart, "adStart")
      [] k = "adEnd" -> endOfPair(params.adEnd, res["adStart"], "adEnd")
      [] k = "adTask" -> nullableText(params.adTask, 30, "adTask")
      [] k = "adCommand" -> nullableText(params.adCommand, 30, "adCommand")
      [] k = "activateMenu" ->
            IF isNullOrUndefined(params.activateMenu) THEN Ok(JsNull)
            ELSE OkUnless(checkInteger(parseInt(params.activateMenu), "activateMenu"),
                          parseInt(params.activateMenu))
      [] OTHER ->
            IF isNullOrUndefined(params.seasonId) THEN Ok(JsNull)
            ELSE IF checkIdParameter(parseInt(params.seasonId), "seasonId") # Null
            THEN Err(checkIdParameter(parseInt(params.seasonId), "seasonId"))
            ELSE Io("get_season")

\* the value an effectful validator calls back with once the store answered
\* with n rows
validatorFound(k, params, n) ==
    LET x == CASE k = "id" -> parseInt(params.id)
               [] k = "groupId" -> parseInt(params.groupId)
               [] OTHER -> parseInt(params.seasonId)
    IN IF n = 0 THEN Err(IllegalArgumentError(k)) ELSE Ok(x)

\* the map the sqlParams task calls back with: NULL for an absent value, the
\* value between double quotes for an escaped one (a date with its seconds)
sqlParamsTask(args, escape, date, res) ==
    [t |-> "object",
     v |-> [item \in Range(args) |->
                IF isNullOrUndefined(res[item]) THEN Text(<<"N", "U", "L", "L">>)
                ELSE IF item \in escape
                THEN IF item \in date THEN [t |-> "datelit", v |-> res[item].v]
                     ELSE Text(<<Quote>> \o res[item].v \o <<Quote>>)
                ELSE res[item]]]

ContestEscape == {"name", "status", "adText", "adTask", "adCommand",
                  "startDate", "endDate", "adStart", "adEnd"}
ContestDates == {"startDate", "endDate", "adStart", "adEnd"}

(***************************************************************************)
(* The tasks of the async.auto calls, in key order, each with the tasks it *)
(* waits for.  The tasks of the nested async.auto of the contest           *)
(* validation are listed with those of the enclosing call: they are        *)
(* started when the enclosing task is, and the enclosing task calls back   *)
(* when all of them have.                                                  *)
(***************************************************************************)
Task(k, deps) == [k |-> k, deps |-> deps]

\* the keys of the object _.reduce builds from args, in insertion order: the
\* first occurrences of the names of args
Keys(args) ==
    LET first == {i \in DOMAIN args : \A j \in 1..(i - 1) : args[j] # args[i]}
    IN [n \in 1..Cardinality(first) |->
            args[CHOOSE i \in first : Cardinality({j \in first : j < i}) = n - 1]]

validatorDeps(k) ==
    CASE k = "endDate" -> {"startDate"}
      [] k = "adEnd" -> {"adStart"}
      [] OTHER -> {}

validateAndPrepareSRMContestApiArguments(args) ==
    [i \in 1..Len(Keys(args)) |-> Task(Keys(args)[i], validatorDeps(Keys(args)[i]))]
        \o <<Task("sqlParams", Range(args))>>

\* the tasks ts of a nested async.auto run as the task k that waits for deps
Nested(k, deps, ts) ==
    [i \in DOMAIN ts |-> Task(ts[i].k, ts[i].deps \cup deps)]
        \o <<Task(k, {ts[i].k : i \in DOMAIN ts})>>

createArgs ==
    <<"name", "startDate", "endDate", "status", "groupId", "adText", "adStart", "adEnd",
      "adTask", "adCommand", "activateMenu", "seasonId">>

updateArgs ==
    <<"id", "contestId", "name", "startDate", "endDate", "status", "groupId", "adText",
      "adStart", "adEnd", "adEnd", "adEnd", "adTask", "adCommand", "activateMenu", "seasonId">>

eventArgs == <<"roundId", "eventId", "eventName", "registrationUrl">>

roomArgs ==
    <<"roundId", "codersPerRoom", "type", "isByDivision", "isByRegion", "isFinal", "p">>

createSRMContest_tasks_eager ==
    <<Task("admin", {})>>
        \o Nested("common", {"admin"}, validateAndPrepareSRMContestApiArguments(createArgs))
        \o <<Task("generateContestId", {"admin"}), Task("insert", {"generateContestId"})>>

createSRMContest_tasks ==
    <<Task("admin", {})>>
        \o Nested("common", {"admin"}, validateAndPrepareSRMContestApiArguments(createArgs))
        \o <<Task("generateContestId", {"common"}), Task("insert", {"generateContestId"})>>

updateSRMContest_tasks ==
    <<Task("admin", {})>>
        \o Nested("validate", {"admin"}, validateAndPrepareSRMContestApiArguments(updateArgs))
        \o <<Task("updateContestId", {"validate"}), Task("updateContest", {"updateContestId"})>>

setRoundEvents_tasks ==
    <<Task("admin", {}),
      Task("roundId", {"admin"}),
      Task("exists", {"roundId"}),
      Task("eventId", {"admin"}),
      Task("eventName", {"admin"}),
      Task("registrationUrl", {"admin"}),
      Task("sqlParams", Range(eventArgs)),
      Task("clean", {"roundId", "exists"}),
      Task("insert", {"clean", "sqlParams"})>>

\* a setRoundLanguages whose query of the known languages does not wait for
\* the admin check
setRoundLanguages_tasks_eager ==
    <<Task("admin", {}),
      Task("roundId", {"admin"}),
      Task("exists", {"roundId"}),
      Task("knownLanguages", {}),
      Task("languages", {"knownLanguages"}),
      Task("clear", {"exists", "languages"}),
      Task("insert", {"clear"})>>

setRoundRoomAssignment_tasks ==
    <<Task("admin", {}),
      Task("roundId", {"admin"}),
      Task("exists", {"roundId"}),
      Task("codersPerRoom", {"admin"}),
      Task("type", {"admin"}),
      Task("isByDivision", {"admin"}),
      Task("isByRegion", {"admin"}),
      Task("isFinal", {"admin"}),
      Task("p", {"admin"}),
      Task("sqlParams", Range(roomArgs)),
      Task("update", {"exists", "sqlParams"})>>

setRoundLanguages_tasks ==
    <<Task("admin", {}),
      Task("roundId", {"admin"}),
      Task("exists", {"roundId"}),
      Task("knownLanguages", {"admin"}),
      Task("languages", {"knownLanguages"}),
      Task("clear", {"exists", "languages"}),
      Task("insert", {"clear"})>>

\* async.series of the admin check and the query: the function at index 1 is
\* called when the one at index 0 called back without error
listSRMContests_tasks == <<Task("0", {}), Task("1", {"0"})>>

loadRoundAccess_tasks == <<Task("0", {}), Task("1", {"0"})>>

WriteEndpoints == {"createSRMContest", "updateSRMContest", "setRoundEvents"}

AdminEndpoints ==
    WriteEndpoints \cup
    {"listSRMContests", "setRoundRoomAssignment", "setRoundLanguages", "loadRoundAccess"}

Tasks(ep) ==
    CASE ep = "createSRMContest" -> createSRMContest_tasks
      [] ep = "updateSRMContest" -> updateSRMContest_tasks
      [] ep = "setRoundRoomAssignment" -> setRoundRoomAssignment_tasks
      [] ep = "setRoundLanguages" -> setRoundLanguages_tasks
      [] ep = "listSRMContests" -> listSRMContests_tasks
      [] ep = "loadRoundAccess" -> loadRoundAccess_tasks
      [] OTHER -> setRoundEvents_tasks

\* the queries async.series runs in updateContestId
updateContestId_series ==
    <<"insert_srm_contest", "update_srm_contest", "update_srm_contest_id", "delete_srm_contest">>

\* an updateContest that never looks at what updateContestId left
updateContest_always(res) == Io("update_srm_contest")

updateContestId(res) ==
    IF res["id"] # res["contestId"] THEN Io(updateContestId_series[1]) ELSE Ok(JsUndefined)

updateContest(res) ==
    IF Falsy(res["updateContestId"]) THEN Io("update_srm_contest") ELSE Ok(JsUndefined)

\* a text field of setRoundEvents
eventText(x, length, name) ==
    IF isNullOrUndefined(x) THEN Ok(JsNull)
    ELSE OkUnless(OrErr(checkStringPopulated(x, name),
                        OrErr(checkMaxNumber(Num(Len(x.v)), length, name),
                              checkIllegalCharacters(x, name))), x)

\* an identifier of setRoundEvents
eventIdentifier(x, name) ==
    OkUnless(OrErr(checkIdParameter(parseInt(x), name), checkMaxNumber(parseInt(x), MAX_ID, name)),
             parseInt(x))

createSRMContest_task(k, r, res) ==
    CASE k = "admin" -> OkUnless(checkAdmin(r.caller), JsUndefined)
      [] k = "sqlParams" -> Ok(sqlParamsTask(createArgs, ContestEscape, ContestDates, res))
      [] k = "common" -> Ok(JsObject)
      [] k = "generateContestId" -> Io("CONTEST_SEQ")
      [] k = "insert" -> IoWith("insert_srm_contest", res["sqlParams"])
      [] OTHER -> validators(k, r.params, res)

updateSRMContest_task(k, r, res) ==
    CASE k = "admin" -> OkUnless(checkAdmin(r.caller), JsUndefined)
      [] k = "sqlParams" -> Ok(sqlParamsTask(updateArgs, ContestEscape, ContestDates, res))
      [] k = "validate" -> Ok(JsObject)
      [] k = "updateContestId" -> updateContestId(res)
      [] k = "updateContest" -> updateContest(res)
      [] OTHER -> validators(k, r.params, res)

setRoundEvents_task(k, r, res) ==
    CASE k = "admin" -> OkUnless(checkAdmin(r.caller), JsUndefined)
      [] k = "roundId" -> eventIdentifier(r.params.roundId, "roundId")
      [] k = "exists" -> Io("check_round_exist")
      [] k = "eventId" -> eventIdentifier(r.params.eventId, "eventId")
      [] k = "eventName" -> eventText(r.params.eventName, 50, "eventName")
      [] k = "registrationUrl" -> eventText(r.params.registrationUrl, 255, "registrationUrl")
      [] k = "sqlParams" ->
            Ok(sqlParamsTask(eventArgs, {"eventName", "registrationUrl"}, {}, res))
      [] k = "clean" -> Io("srm_clear_round_events")
      [] OTHER -> Io("srm_insert_round_event")

\* the seedings setRoundRoomAssignment accepts as type
SEEDINGS == [i \in 1..10 |-> Num(i)]
CODERS_PER_ROOM_MAX == 9999
PARALLELIZATION_LIMIT == 3

\* parseFloat(x) of a raw parameter
parseFloat(x) ==
    CASE x.t = "int" -> Num(x.v)
      [] x.t = "frac" -> [t |-> "frac", v |-> x.v]
      [] x.t = "big" -> [t |-> "big", v |-> 0]
      [] OTHER -> NaN

\* checkFlag(obj, name) of setRoundRoomAssignment
checkFlag(obj, name) ==
    OkUnless(checkContains(<<Num(0), Num(1)>>, parseInt(obj), name), parseInt(obj))

\* the p of setRoundRoomAssignment: a number of at most 0.9999999999499999e8 in
\* absolute value, which an integer above MAX_INT is not
roomP(x) ==
    IF parseFloat(x) = NaN \/ parseFloat(x).t = "big"
    THEN Err(IllegalArgumentError("p"))
    ELSE Ok(parseFloat(x))

setRoundRoomAssignment_task(k, r, res) ==
    CASE k = "admin" -> OkUnless(checkAdmin(r.caller), JsUndefined)
      [] k = "roundId" -> eventIdentifier(r.params.roundId, "roundId")
      [] k = "exists" -> IoWith("check_round_room_assignment_exist", res["roundId"])
      [] k = "codersPerRoom" ->
            OkUnless(OrErr(checkPositiveInteger(parseInt(r.params.codersPerRoom),
                                                "codersPerRoom"),
                           checkMaxNumber(parseInt(r.params.codersPerRoom),
                                          CODERS_PER_ROOM_MAX, "codersPerRoom")),
                     parseInt(r.params.codersPerRoom))
      [] k = "type" ->
            OkUnless(OrErr(checkPositiveInteger(parseInt(r.params.type), "type"),
                           checkContains(SEEDINGS, parseInt(r.params.type), "type")),
                     parseInt(r.params.type))
      [] k = "isByDivision" -> checkFlag(r.params.isByDivision, "isByDivision")
      [] k = "isByRegion" -> checkFlag(r.params.isByRegion, "isByRegion")
      [] k = "isFinal" -> checkFlag(r.params.isFinal, "isFinal")
      [] k = "p" -> roomP(r.params.p)
      [] k = "sqlParams" -> Ok(sqlParamsTask(roomArgs, {}, {}, res))
      [] OTHER -> IoWith("srm_update_room_assignment", res["sqlParams"])

\* the elements of the set s of integers in ascending order
ascending(s) ==
    [n \in 1..Cardinality(s) |-> CHOOSE x \in s : Cardinality({y \in s : y < x}) = n - 1]

\* a languages task that keeps the duplicates of the request
languagesTask_duplicates(x, known) ==
    LET unknown == {i \in 1..Len(x.v) : x.v[i] \notin 1..known.v}
        found == x.v[CHOOSE i \in unknown : \A j \in unknown : i <= j]
    IN IF x.t # "list" THEN Err(IllegalArgumentError("languages"))
       ELSE IF Len(x.v) > known.v THEN Err(IllegalArgumentError("languages"))
       ELSE IF unknown # {} /\ found # 0 THEN Err(IllegalArgumentError("language"))
       ELSE Ok(List(x.v))

\* the languages task of setRoundLanguages, given the rows of the known
\* languages (their identifiers are 1..known.v): _.find answers the first
\* language that is not known, which is falsy when that language is 0
languagesTask(x, known) ==
    LET unknown == {i \in 1..Len(x.v) : x.v[i] \notin 1..known.v}
        found == x.v[CHOOSE i \in unknown : \A j \in unknown : i <= j]
    IN IF x.t # "list" THEN Err(IllegalArgumentError("languages"))
       ELSE IF Len(x.v) > known.v THEN Err(IllegalArgumentError("languages"))
       ELSE IF unknown # {} /\ found # 0 THEN Err(IllegalArgumentError("language"))
       ELSE Ok(List(ascending(Range(x.v))))

\* the calls async.eachLimit starts at first: one for each of the first limit
\* elements of arr
eachLimit(arr, limit, q) ==
    IF Len(arr) = 0 THEN Ok(JsUndefined)
    ELSE [kind |-> "each", v |-> JsUndefined, e |-> Null, q |-> q,
          a |-> SubSeq(arr, 1, IF Len(arr) < limit THEN Len(arr) ELSE limit)]

setRoundLanguages_task(k, r, res) ==
    CASE k = "admin" -> OkUnless(checkAdmin(r.caller), JsUndefined)
      [] k = "roundId" -> eventIdentifier(r.params.roundId, "roundId")
      [] k = "exists" -> IoWith("check_round_exist", res["roundId"])
      [] k = "knownLanguages" -> Io("srm_get_all_languages")
      [] k = "languages" -> languagesTask(r.params.languages, res["knownLanguages"])
      [] k = "clear" -> IoWith("srm_clear_round_languages", res["roundId"])
      [] OTHER ->
            eachLimit([i \in DOMAIN res["languages"].v |-> Num(res["languages"].v[i])],
                      PARALLELIZATION_LIMIT, "srm_insert_round_language")

listSRMContests_task(k, r, res) ==
    IF k = "0" THEN OkUnless(checkAdmin(r.caller), JsUndefined)
    ELSE Io("get_all_srm_contests")

loadRoundAccess_task(k, r, res) ==
    IF k = "0" THEN OkUnless(checkAdmin(r.caller), JsUndefined)
    ELSE Io("srm_get_accessible_rounds")

TaskStep(k, r, res) ==
    CASE r.ep = "createSRMContest" -> createSRMContest_task(k, r, res)
      [] r.ep = "updateSRMContest" -> updateSRMContest_task(k, r, res)
      [] r.ep = "setRoundRoomAssignment" -> setRoundRoomAssignment_task(k, r, res)
      [] r.ep = "setRoundLanguages" -> setRoundLanguages_task(k, r, res)
      [] r.ep = "listSRMContests" -> listSRMContests_task(k, r, res)
      [] r.ep = "loadRoundAccess" -> loadRoundAccess_task(k, r, res)
      [] OTHER -> setRoundEvents_task(k, r, res)

(***************************************************************************)
(* async.auto.  results holds the value of every task that called back     *)
(* without error; a task is run once, as soon as every task it waits for   *)
(* is in results; the first error calls the final callback, and so does    *)
(* the last task to call back; the final callback is called once.  The     *)
(* tasks that were started keep running after an error.                    *)
(***************************************************************************)
\* args holds the parameters of the store calls, in the order of issue; each
\* counts the calls of async.eachLimit that were started, that completed and
\* that failed
NoAuto ==
    [started |-> {}, results |-> <<>>, series |-> 0, completed |-> <<>>,
     genContestId |-> MAX_INT, args |-> <<>>,
     each |-> [started |-> 0, completed |-> 0, failed |-> 0]]

\* the part of the state a turn of the event loop works on
Turn(a, p, i, e, rsp, at) ==
    [auto |-> a, pending |-> p, issued |-> i, error |-> e, response |-> rsp, pc |-> at]

ready(m, task) ==
    /\ task.deps \subseteq DOMAIN m.auto.results
    /\ task.k \notin m.auto.started

\* the callback of task k is called with outcome o, or k started the store call o.q
taskCallback(m, k, o) ==
    CASE o.kind = "ok" ->
            [m EXCEPT !.auto.results = (k :> o.v) @@ @]
      [] o.kind = "err" ->
            IF m.pc = "done" THEN m ELSE [m EXCEPT !.pc = "done", !.error = o.e]
      [] o.kind = "each" ->
            [m EXCEPT !.pending = @ \cup {[k |-> k, q |-> o.q, a |-> o.a[i]] : i \in DOMAIN o.a},
                      !.issued = @ \o [i \in DOMAIN o.a |-> o.q],
                      !.auto.args = @ \o o.a,
                      !.auto.each.started = @ + Len(o.a)]
      [] OTHER ->
            [m EXCEPT !.pending = @ \cup {[k |-> k, q |-> o.q, a |-> o.a]},
                      !.issued = Append(@, o.q),
                      !.auto.args = Append(@, o.a)]

runTask(m, k, r) ==
    taskCallback([m EXCEPT !.auto.started = @ \cup {k}], k, TaskStep(k, r, m.auto.results))

TaskKeys(ep) == {Tasks(ep)[i].k : i \in DOMAIN Tasks(ep)}

RECURSIVE runReady(_, _, _, _)
\* one pass over the tasks lo..hi in key order, each run if it is ready when its
\* turn comes; nothing is left to run once every task was started.  The range
\* is halved so that the evaluation stays shallow.
runReady(m, r, lo, hi) ==
    IF lo > hi \/ m.auto.started = TaskKeys(r.ep) THEN m
    ELSE IF lo = hi
    THEN IF ready(m, Tasks(r.ep)[lo]) THEN runTask(m, Tasks(r.ep)[lo].k, r) ELSE m
    ELSE runReady(runReady(m, r, lo, (lo + hi) \div 2), r, (lo + hi) \div 2 + 1, hi)

\* the final callback of the endpoint when every task has called back
finalCallback(m, r) ==
    IF m.pc # "done" /\ TaskKeys(r.ep) \subseteq DOMAIN m.auto.results
    THEN [m EXCEPT !.pc = "done",
                   !.response =
                        CASE r.ep = "createSRMContest" -> [contestId |-> m.auto.genContestId]
                          [] r.ep = "listSRMContests" -> [list |-> m.auto.results["1"].v]
                          [] r.ep = "loadRoundAccess" ->
                                IF m.auto.results["1"].v > 0
                                THEN [accessibleRounds |-> m.auto.results["1"].v]
                                ELSE [list |-> 0]
                          [] OTHER -> [success |-> TRUE]]
    ELSE m

RECURSIVE settle(_, _)
\* passes until no task is ready
settle(m, r) ==
    LET n == runReady(m, r, 1, Len(Tasks(r.ep)))
    IN IF n.auto.started = m.auto.started THEN finalCallback(n, r) ELSE settle(n, r)

\* the call c of task c.k completes: n < 0 is a failure of the store, otherwise n
\* is the number of rows found (the identifier, for the generator)
eachCallback(m, c, r, n) ==
    LET arr == m.auto.results["languages"].v
        e == m.auto.each
        running == e.started - (e.completed + 1) - e.failed
        room == PARALLELIZATION_LIMIT - running
        left == Len(arr) - e.started
        more == IF room < left THEN room ELSE left
    IN IF n < 0
       THEN IF e.failed > 0 THEN [m EXCEPT !.auto.each.failed = @ + 1]
            ELSE taskCallback([m EXCEPT !.auto.each.failed = @ + 1], c.k, Err(StoreError))
       ELSE IF e.completed + 1 >= Len(arr)
       THEN IF e.failed > 0 THEN [m EXCEPT !.auto.each.completed = @ + 1]
            ELSE taskCallback([m EXCEPT !.auto.each.completed = @ + 1], c.k, Ok(JsUndefined))
       ELSE IF more > 0
       THEN taskCallback([m EXCEPT !.auto.each.completed = @ + 1], c.k,
                         [kind |-> "each", v |-> JsUndefined, e |-> Null, q |-> c.q,
                          a |-> [i \in 1..more |-> Num(arr[e.started + i])]])
       ELSE [m EXCEPT !.auto.each.completed = @ + 1]

storeCallback(m, c, r, n) ==
    LET m1 == [m EXCEPT !.pending = @ \ {c},
                        !.auto.completed = Append(@, c.q)]
    IN CASE c.q = "srm_insert_round_language" -> eachCallback(m1, c, r, n)
         [] n < 0 -> taskCallback(m1, c.k, Err(StoreError))
         [] c.k \in {"knownLanguages", "1"} -> taskCallback(m1, c.k, Ok(Rows(n)))
         [] c.k \in {"id", "groupId", "seasonId"} ->
                taskCallback(m1, c.k, validatorFound(c.k, r.params, n))
         [] c.k = "exists" ->
                taskCallback(m1, c.k,
                             IF n = 0 THEN Err(IllegalArgumentError("roundId")) ELSE Ok(JsNull))
         [] c.k = "generateContestId" ->
                taskCallback([m1 EXCEPT !.auto.genContestId = n,
                                        !.auto.results["sqlParams"].v =
                                            ("contestId" :> Num(n)) @@ @],
                             c.k, Ok(JsUndefined))
         [] c.k = "updateContestId" ->
                IF m.auto.series + 1 < Len(updateContestId_series)
                THEN taskCallback([m1 EXCEPT !.auto.series = @ + 1], c.k,
                                  Io(updateContestId_series[m.auto.series + 2]))
                ELSE taskCallback([m1 EXCEPT !.auto.series = @ + 1], c.k, Ok(JsArray))
         [] OTHER -> taskCallback(m1, c.k, Ok(JsArray))

GeneratedIds == {3, 4}

\* what the store can answer to the call c
Outcomes(c) ==
    CASE c.q \in {"get_srm_contest", "get_group", "get_season", "check_round_exist",
                  "check_round_room_assignment_exist", "get_all_srm_contests",
                  "srm_get_accessible_rounds"} -> {-1, 0, 1}
      [] c.q = "srm_get_all_languages" -> {-1, 0, 2, 5}
      [] c.q = "CONTEST_SEQ" -> {-1} \cup GeneratedIds
      [] OTHER -> {-1, 1}

Become(m) ==
    /\ auto' = m.auto
    /\ pending' = m.pending
    /\ issued' = m.issued
    /\ error' = m.error
    /\ response' = m.response
    /\ pc' = m.pc
    /\ UNCHANGED <<req, rows, SCHEDULE_TIMEZONE, dirty, pageIndex, pageSize, sortColumn, sortOrder, sqlParams, filters,
                   results>>

Started == Turn(NoAuto, {}, <<>>, Null, NoResponse, "running")

\* createSRMContest.run up to its first suspension
createSRMContest_run ==
    /\ pc = "start"
    /\ req.ep = "createSRMContest"
    /\ Become(settle(Started, req))

\* updateSRMContest.run up to its first suspension
updateSRMContest_run ==
    /\ pc = "start"
    /\ req.ep = "updateSRMContest"
    /\ Become(settle(Started, req))

\* setRoundEvents.run up to its first suspension
setRoundEvents_run ==
    /\ pc = "start"
    /\ req.ep = "setRoundEvents"
    /\ Become(settle(Started, req))

\* setRoundRoomAssignment.run up to its first suspension
setRoundRoomAssignment_run ==
    /\ pc = "start"
    /\ req.ep = "setRoundRoomAssignment"
    /\ Become(settle(Started, req))

\* setRoundLanguages.run up to its first suspension
setRoundLanguages_run ==
    /\ pc = "start"
    /\ req.ep = "setRoundLanguages"
    /\ Become(settle(Started, req))

\* listSRMContests.run up to its first suspension
listSRMContests_run ==
    /\ pc = "start"
    /\ req.ep = "listSRMContests"
    /\ Become(settle(Started, req))

\* loadRoundAccess.run up to its first suspension
loadRoundAccess_run ==
    /\ pc = "start"
    /\ req.ep = "loadRoundAccess"
    /\ Become(settle(Started, req))

\* a store call of an admin endpoint completes, and the tasks it releases run;
\* a call made without a dbConnectionMap fails
storeCallDone ==
    /\ pc \in {"running", "done"}
    /\ req.ep \in AdminEndpoints
    /\ \E c \in pending :
        \E n \in Outcomes(c) :
            Become(settle(storeCallback(Turn(auto, pending, issued, error, response, pc),
                                        c, req, n),
                          req))

NoRequest == [ep |-> "none", params |-> <<>>, caller |-> "", db |-> TRUE]

Fresh(r, at) ==
    /\ req' = r
    /\ pc' = at
    /\ pageIndex' = NaN
    /\ pageSize' = NaN
    /\ sortColumn' = ""
    /\ sortOrder' = ""
    /\ sqlParams' = NoSqlParams
    /\ filters' = <<>>
    /\ results' = NoResults
    /\ error' = Null
    /\ response' = NoResponse
    /\ pending' = {}
    /\ issued' = <<>>
    /\ dirty' = FALSE
    /\ auto' = NoAuto

\* a listing request arrives
ListRequestArrives ==
    /\ pc = "idle"
    /\ UNCHANGED <<rows, SCHEDULE_TIMEZONE>>
    /\ \E r \in ListRequests \cup UnconnectedListRequests : Fresh(r, "start")

\* the request is over: next was called (or run threw) and no store call is outstanding
RequestEnds ==
    /\ pc \in {"done", "crashed"}
    /\ pending = {}
    /\ UNCHANGED <<rows, SCHEDULE_TIMEZONE>>
    /\ Fresh(NoRequest, "idle")

Init ==
    /\ rows \in 0..MaxRows
    /\ req = NoRequest
    /\ pc = "idle"
    /\ pageIndex = NaN
    /\ pageSize = NaN
    /\ sortColumn = ""
    /\ sortOrder = ""
    /\ sqlParams = NoSqlParams
    /\ filters = <<>>
    /\ SCHEDULE_TIMEZONE = ""
    /\ results = NoResults
    /\ error = Null
    /\ response = NoResponse
    /\ pending = {}
    /\ issued = <<>>
    /\ dirty = FALSE
    /\ auto = NoAuto

Next ==
    \/ searchSRMChallenges_run
    \/ getSRMSchedule_run
    \/ getPracticeProblems_run
    \/ readQueryDone
    \/ executeQueryDone
    \/ StoreWrite
    \/ ListRequestArrives
    \/ RequestEnds

Spec == Init /\ [][Next]_vars

(***************************************************************************)
(* Requests to the write endpoints.                                        *)
(***************************************************************************)
MaxStrLen == 3

Strings(n) == UNION {[1..k -> {"a", Quote}] : k \in 0..n}

ShortTexts == {RawUndef} \cup {Text(str) : str \in Strings(MaxStrLen)}

\* the texts tried for a field of at most limit characters
TextInputs(limit) ==
    ShortTexts \cup {Text(Pad(limit)), Text(Pad(limit + 1)), Text(<<Quote>> \o Pad(limit))}

FewTexts == {RawUndef, Text(<<"a">>), Text(<<Quote>>), Text(<<"a", Quote, Quote>>)}
IdInputs == {RawUndef, RawText, RawInt(0), RawInt(1), RawInt(2)}
DateInputs == {RawUndef, BadDate, Date(1), Date(2)}
StatusInputs == {RawUndef, Text(<<>>), Text(<<"A">>), Text(<<"a">>), Text(<<"A", "F">>)}
Callers == {"admin", "member", "anon"}

WriteFields ==
    {"id", "contestId", "name", "startDate", "endDate", "status", "groupId", "adText",
     "adStart", "adEnd", "adTask", "adCommand", "activateMenu", "seasonId",
     "roundId", "eventId", "eventName", "registrationUrl",
     "codersPerRoom", "type", "isByDivision", "isByRegion", "isFinal", "p", "languages"}

NoParams == [f \in WriteFields |-> RawUndef]
WriteRequest(ep, p, caller) == [ep |-> ep, params |-> p, caller |-> caller, db |-> TRUE]

\* contest requests that vary the name and the caller
NameRequests ==
    {WriteRequest("createSRMContest", [NoParams EXCEPT !.name = n], c) :
        n \in TextInputs(50), c \in Callers}
    \cup
    {WriteRequest("updateSRMContest",
                  [NoParams EXCEPT !.name = n, !.id = RawInt(1), !.contestId = RawInt(k)], c) :
        n \in TextInputs(50), k \in 1..2, c \in Callers}

\* contest requests of an administrator that vary one advertisement text
AdRequests ==
    LET base(ep) == IF ep = "createSRMContest" THEN [NoParams EXCEPT !.name = Text(<<"a">>)]
                    ELSE [NoParams EXCEPT !.name = Text(<<"a">>), !.id = RawInt(1),
                                          !.contestId = RawInt(2)]
    IN UNION {
        {WriteRequest(ep, [base(ep) EXCEPT !.adText = x], "admin") : x \in ShortTexts}
        \cup {WriteRequest(ep, [base(ep) EXCEPT !.adTask = x], "admin") : x \in TextInputs(30)}
        \cup {WriteRequest(ep, [base(ep) EXCEPT !.adCommand = x], "admin") : x \in TextInputs(30)}
        : ep \in {"createSRMContest", "updateSRMContest"}}

\* update requests of an administrator that vary the two identifiers
IdRequests ==
    {WriteRequest("updateSRMContest",
                  [NoParams EXCEPT !.name = n, !.id = i, !.contestId = k], "admin") :
        n \in {Text(<<"a">>), Text(<<Quote>>)}, i \in IdInputs, k \in IdInputs}

\* create requests of an administrator that vary the other fields
FieldRequests ==
    LET base == [NoParams EXCEPT !.name = Text(<<"a">>)]
    IN {WriteRequest("createSRMContest", [base EXCEPT !.startDate = a, !.endDate = b], "admin") :
            a \in DateInputs, b \in DateInputs}
       \cup
       {WriteRequest("createSRMContest", [base EXCEPT !.adStart = a, !.adEnd = b], "admin") :
            a \in DateInputs, b \in DateInputs}
       \cup
       {WriteRequest("createSRMContest", [base EXCEPT !.status = x], "admin") :
            x \in StatusInputs}
       \cup
       {WriteRequest("createSRMContest",
                     [base EXCEPT !.name = n, !.groupId = g, !.seasonId = x], "admin") :
            n \in {Text(<<"a">>), Text(<<Quote>>)},
            g \in {RawUndef, RawText, RawInt(1)},
            x \in {RawUndef, RawInt(0), RawInt(1)}}
       \cup
       {WriteRequest("createSRMContest", [base EXCEPT !.activateMenu = x], "admin") :
            x \in {RawText, RawInt(0)}}

\* update requests of an administrator that vary the dates
UpdateDateRequests ==
    LET base == [NoParams EXCEPT !.name = Text(<<"a">>), !.id = RawInt(1),
                                 !.contestId = RawInt(1)]
    IN {WriteRequest("updateSRMContest", [base EXCEPT !.startDate = a, !.endDate = b], "admin") :
            a \in DateInputs, b \in DateInputs}
       \cup
       {WriteRequest("updateSRMContest", [base EXCEPT !.adStart = a, !.adEnd = b], "admin") :
            a \in DateInputs, b \in DateInputs}

EventRequests ==
    {WriteRequest("setRoundEvents",
                  [NoParams EXCEPT !.roundId = RawInt(1), !.eventId = RawInt(1),
                                   !.eventName = n, !.registrationUrl = u], "admin") :
        n \in TextInputs(50), u \in ShortTexts}
    \cup
    {WriteRequest("setRoundEvents",
                  [NoParams EXCEPT !.roundId = i, !.eventId = k, !.eventName = n], c) :
        i \in {RawUndef, RawInt(1), RawInt(MAX_ID + 1)}, k \in {RawUndef, RawInt(1)},
        n \in FewTexts, c \in Callers}

WriteRequests ==
    NameRequests \cup AdRequests \cup IdRequests \cup FieldRequests \cup UpdateDateRequests
        \cup EventRequests

\* a setRoundRoomAssignment request with every field given and valid
RoomParams ==
    [NoParams EXCEPT !.roundId = RawInt(1), !.codersPerRoom = RawInt(2), !.type = RawInt(1),
                     !.isByDivision = RawInt(0), !.isByRegion = RawInt(1),
                     !.isFinal = RawInt(0), !.p = RawFrac(1)]

FlagInputs == {RawUndef, RawText, RawInt(0), RawInt(1), RawInt(11), RawBig}

\* setRoundRoomAssignment requests: every field given, one field varied, and
\* every subset of the optional fields left out
RoomRequests ==
    {WriteRequest("setRoundRoomAssignment", RoomParams, c) : c \in Callers}
    \cup
    {WriteRequest("setRoundRoomAssignment", [RoomParams EXCEPT ![f] = x], "admin") :
        f \in Range(roomArgs), x \in FlagInputs}
    \cup
    {WriteRequest("setRoundRoomAssignment",
                  [f \in WriteFields |-> IF f \in out THEN RawUndef ELSE RoomParams[f]], c) :
        out \in SUBSET (Range(roomArgs) \ {"roundId"}), c \in {"admin", "member"}}

LanguageInputs ==
    {RawUndef, List(<<>>), List(<<1>>), List(<<2, 1>>), List(<<1, 1>>), List(<<3>>),
     List(<<0>>), List(<<1, 2, 1>>), List(<<4, 2, 3, 1>>), List(<<2, 4, 1, 3, 2>>)}

LanguageRequests ==
    {WriteRequest("setRoundLanguages", [NoParams EXCEPT !.roundId = i, !.languages = l], c) :
        i \in {RawUndef, RawInt(1)}, l \in LanguageInputs, c \in Callers}

SeriesRequests ==
    {WriteRequest(ep, NoParams, c) : ep \in {"listSRMContests", "loadRoundAccess"}, c \in Callers}

AdminRequests == WriteRequests \cup RoomRequests \cup LanguageRequests \cup SeriesRequests

\* requests to the admin endpoints on a connection without dbConnectionMap; the
\* caller is no admin, so that no query is handed to the data access layer
UnconnectedAdminRequests ==
    {Unconnected(r) : r \in {q \in AdminRequests : q.caller # "admin"}}

\* a request to an admin endpoint arrives
WriteRequestArrives ==
    /\ pc = "idle"
    /\ UNCHANGED <<rows, SCHEDULE_TIMEZONE>>
    /\ \E r \in AdminRequests \cup UnconnectedAdminRequests : Fresh(r, "start")

NextWrite ==
    \/ createSRMContest_run
    \/ updateSRMContest_run
    \/ setRoundEvents_run
    \/ setRoundRoomAssignment_run
    \/ setRoundLanguages_run
    \/ listSRMContests_run
    \/ loadRoundAccess_run
    \/ storeCallDone
    \/ WriteRequestArrives
    \/ RequestEnds

SpecWrite == Init /\ [][NextWrite]_vars

(***************************************************************************)
(* The detail lookups: getSRMChallenge and getSrmRoundsForProblem.         *)
(***************************************************************************)
LEADER_COUNT == 5
NotFoundError == [kind |-> "NotFoundError", field |-> ""]

DetailEndpoints == {"getSRMChallenge", "getSrmRoundsForProblem"}

\* id and er as run computes them
challengeId(params) == Number(params.id)
challengeEr(params) == Number(OrDefault(params.er, LEADER_COUNT))

\* the first step of the waterfall of getSRMChallenge
challengeValidate(params) ==
    FirstError(<<checkPositiveInteger(challengeId(params), "id"),
                 checkMaxNumber(challengeId(params), MAX_INT, "id"),
                 checkPositiveInteger(challengeEr(params), "er"),
                 checkMaxNumber(challengeEr(params), MAX_INT, "er")>>)

\* the three queries of async.parallel, each with the sqlParams of run
challengeQueries(params) ==
    {[k |-> q[1], q |-> q[2], a |-> [roundId |-> challengeId(params), er |-> challengeEr(params)]] :
        q \in {<<"basic", "get_srm_detail_basic">>, <<"leaders", "get_srm_detail_leader">>,
               <<"problems", "get_srm_detail_problem">>}}

\* the result of getSRMChallenge: the round, and the leaders and problems found
challengeResult(params, res) ==
    [roundId |-> challengeId(params), leaders |-> res["leaders"].v, problems |-> res["problems"].v]

\* the answer of a request without dbConnectionMap
NoConnectionTurn ==
    [auto |-> auto, pending |-> pending, issued |-> issued, error |-> NoConnectionError,
     response |-> response, pc |-> "done"]

\* the handler ends with the error e
FailedTurn(e) ==
    [auto |-> auto, pending |-> pending, issued |-> issued, error |-> e,
     response |-> response, pc |-> "done"]

\* getSRMChallenge.run up to its first suspension
getSRMChallenge_run ==
    /\ pc = "start"
    /\ req.ep = "getSRMChallenge"
    /\ IF ~req.db
       THEN Become(NoConnectionTurn)
       ELSE IF challengeValidate(req.params) # Null
       THEN Become(FailedTurn(challengeValidate(req.params)))
       ELSE Become([auto |-> [auto EXCEPT !.started = {"basic", "leaders", "problems"}],
                    pending |-> challengeQueries(req.params),
                    issued |-> <<"get_srm_detail_basic", "get_srm_detail_leader",
                                 "get_srm_detail_problem">>,
                    error |-> error, response |-> response, pc |-> "running"])

\* the first step of the waterfall of getSrmRoundsForProblem
roundsProblemId(params) == parseInt(params.problemId)

\* a call of dataAccess in getSrmRoundsForProblem
roundsQuery(k, q, params) == [k |-> k, q |-> q, a |-> [problem_id |-> roundsProblemId(params)]]

\* exports.getSrmRoundsForProblem.run up to its first suspension
getSrmRoundsForProblem_run ==
    /\ pc = "start"
    /\ req.ep = "getSrmRoundsForProblem"
    /\ IF ~req.db
       THEN Become(NoConnectionTurn)
       ELSE IF checkIdParameter(roundsProblemId(req.params), "problemId") # Null
       THEN Become(FailedTurn(checkIdParameter(roundsProblemId(req.params), "problemId")))
       ELSE Become([auto |-> [auto EXCEPT !.started = {"checkProblem"}],
                    pending |-> {roundsQuery("checkProblem", "check_problem_exists", req.params)},
                    issued |-> <<"check_problem_exists">>,
                    error |-> error, response |-> response, pc |-> "running"])

\* what a query of a detail lookup can answer: -1 for an error, else the
\* number of rows; check_problem_exists answers one row, whose is_there is 0 or 1
DetailOutcomes(c) ==
    CASE c.q = "get_srm_detail_basic" -> {-1, 0, 1}
      [] c.q = "check_problem_exists" -> {-1, 0, 1}
      [] OTHER -> {-1, 0, 2}

challengeMissing_leaders(res) == res["leaders"].v = 0
\* results.basic.length === 0
challengeMissing(res) == res["basic"].v = 0

\* the callback of a query of getSRMChallenge, and the steps that follow it
challengeCallback(c, n) ==
    LET res == (c.k :> Rows(n)) @@ auto.results
        a == [auto EXCEPT !.results = res, !.completed = Append(@, c.q)]
        rest == pending \ {c}
    IN IF pc = "done"
       THEN [auto |-> IF n = -1 THEN auto ELSE a, pending |-> rest, issued |-> issued,
             error |-> error, response |-> response, pc |-> pc]
       ELSE IF n = -1
       THEN [auto |-> auto, pending |-> rest, issued |-> issued, error |-> StoreError,
             response |-> response, pc |-> "done"]
       ELSE IF rest # {}
       THEN [auto |-> a, pending |-> rest, issued |-> issued, error |-> error,
             response |-> response, pc |-> pc]
       ELSE IF challengeMissing(res)
       THEN [auto |-> a, pending |-> rest, issued |-> issued, error |-> NotFoundError,
             response |-> response, pc |-> "done"]
       ELSE [auto |-> a, pending |-> rest, issued |-> issued, error |-> error,
             response |-> challengeResult(req.params, res), pc |-> "done"]

\* the callback of a query of getSrmRoundsForProblem, and the steps that follow it
roundsCallback(c, n) ==
    LET a == [auto EXCEPT !.results = (c.k :> Rows(n)) @@ @, !.completed = Append(@, c.q)]
    IN IF n = -1
       THEN [auto |-> auto, pending |-> {}, issued |-> issued, error |-> StoreError,
             response |-> response, pc |-> "done"]
       ELSE IF c.q = "get_rounds_for_problem"
       THEN [auto |-> a, pending |-> {}, issued |-> issued, error |-> error,
             response |-> [rounds |-> n], pc |-> "done"]
       ELSE IF n = 0
       THEN [auto |-> a, pending |-> {}, issued |-> issued, error |-> NotFoundError,
             response |-> response, pc |-> "done"]
       ELSE [auto |-> [a EXCEPT !.started = @ \cup {"rounds"}],
             pending |-> {roundsQuery("rounds", "get_rounds_for_problem", req.params)},
             issued |-> Append(issued, "get_rounds_for_problem"),
             error |-> error, response |-> response, pc |-> pc]

\* a query of a detail lookup completes
detailQueryDone ==
    /\ pc \in {"running", "done"}
    /\ req.ep \in DetailEndpoints
    /\ \E c \in pending :
        \E n \in DetailOutcomes(c) :
            Become(IF req.ep = "getSRMChallenge"
                   THEN challengeCallback(c, n)
                   ELSE roundsCallback(c, n))

DetailIdInputs == {RawUndef, RawText, RawInt(0), RawInt(1), RawInt(2), RawFrac(1), RawBig}

DetailRequests ==
    {[ep |-> "getSRMChallenge", params |-> [id |-> i, er |-> e], caller |-> "anon", db |-> d] :
        i \in DetailIdInputs, e \in {RawUndef, RawEmpty, RawInt(0), RawInt(3), RawBig}, d \in BOOLEAN}
    \cup
    {[ep |-> "getSrmRoundsForProblem", params |-> [problemId |-> i], caller |-> "anon",
      db |-> d] : i \in DetailIdInputs, d \in BOOLEAN}

\* a request for a detail lookup arrives
DetailRequestArrives ==
    /\ pc = "idle"
    /\ UNCHANGED <<rows, SCHEDULE_TIMEZONE>>
    /\ \E r \in DetailRequests : Fresh(r, "start")

NextDetail ==
    \/ getSRMChallenge_run
    \/ getSrmRoundsForProblem_run
    \/ detailQueryDone
    \/ DetailRequestArrives
    \/ RequestEnds

SpecDetail == Init /\ [][NextDetail]_vars

(***************************************************************************)
(* What a request asks for, read off the request itself.                   *)
(***************************************************************************)
IsListing == req.ep \in ListEndpoints
IsSearchOrSchedule == req.ep \in {"searchSRMChallenges", "getSRMSchedule"}
QueriesComposed == sqlParams # NoSqlParams
Succeeded == pc = "done" /\ response # NoResponse

DefaultPageSizeOf(ep) == IF ep = "getPracticeProblems" THEN PRACTICE_PAGE_SIZE ELSE DEFAULT_PAGE_SIZE
DefaultSortColumnOf(ep) ==
    CASE ep = "searchSRMChallenges" -> "roundId"
      [] ep = "getSRMSchedule" -> "registrationStartTime"
      [] OTHER -> "problemId"
AllowListOf(ep) ==
    CASE ep = "searchSRMChallenges" -> ALLOWABLE_SORT_COLUMN
      [] ep = "getSRMSchedule" -> ALLOWABLE_SCHEDULE_SORT_COLUMN
      [] OTHER -> VALID_PRACTICE_PROBLEMS_SORT_COLUMN

\* the page index and page size the caller asked for (the default when omitted)
AskedPageIndex(r) == IF r.params.pageIndex.t = "int" THEN r.params.pageIndex.v ELSE 1
AskedPageSize(r) == IF r.params.pageSize.t = "int" THEN r.params.pageSize.v ELSE DefaultPageSizeOf(r.ep)
AskedAll(r) == r.params.pageIndex = RawInt(-1)

\* the requested sort column is a member of the endpoint's allow-list, in any letter case
InAllowList(r) ==
    \E i \in DOMAIN AllowListOf(r.ep) :
        toLowerCase(AllowListOf(r.ep)[i]) = toLowerCase(r.params.sortColumn)

(***************************************************************************)
(* C1: for an accepted request with pageIndex >= 1 and pageSize > 0 the    *)
(* queries get firstRowIndex = (pageIndex-1)*pageSize and the requested    *)
(* (or default) pageSize; in searchSRMChallenges and getSRMSchedule a      *)
(* request with pageIndex = -1 gets firstRowIndex = 0 and pageSize =       *)
(* MAX_INT.                                                                *)
(***************************************************************************)
C1_PageWindow ==
    (IsListing /\ QueriesComposed) =>
        /\ (AskedPageIndex(req) >= 1 /\ AskedPageSize(req) > 0) =>
                /\ sqlParams.firstRowIndex = times(AskedPageIndex(req) - 1, AskedPageSize(req))
                /\ sqlParams.pageSize = AskedPageSize(req)
        /\ (IsSearchOrSchedule /\ AskedAll(req)) =>
                /\ sqlParams.firstRowIndex = 0
                /\ sqlParams.pageSize = MAX_INT

C1_Witness ==
    /\ req.ep = "getSRMSchedule"
    /\ req.params.pageIndex = RawInt(2)
    /\ req.params.pageSize = RawInt(2)
    /\ sqlParams.firstRowIndex = 2
    /\ "data" \in results.got

(***************************************************************************)
(* C2: a successful searchSRMChallenges or getSRMSchedule request made     *)
(* with pageIndex = -1 answers pageIndex 1, and pageSize 0 when the data   *)
(* query returned no rows and the envelope's total (the count query's      *)
(* scalar) otherwise, never MAX_INT.                                       *)
(***************************************************************************)
C2_SentinelEnvelope ==
    (IsSearchOrSchedule /\ AskedAll(req) /\ Succeeded) =>
        /\ response.pageIndex = 1
        /\ results.data = <<>> => response.pageSize = 0
        /\ results.data # <<>> =>
                /\ response.pageSize = response.total
                /\ response.total = results.count
        /\ response.pageSize # MAX_INT

C2_Witness ==
    /\ req.ep = "searchSRMChallenges"
    /\ AskedAll(req)
    /\ Succeeded
    /\ Len(results.data) = MaxRows
    /\ response.pageSize = MaxRows

(***************************************************************************)
(* C3: in getPracticeProblems a request with pageIndex = -1 is the "no     *)
(* pagination" sentinel: the queries get firstRowIndex = 0 and a maximal   *)
(* pageSize, and the response reports pageIndex 1 with pageSize equal to   *)
(* total.                                                                  *)
(***************************************************************************)
C3_PracticeSentinel ==
    (req.ep = "getPracticeProblems" /\ AskedAll(req)) =>
        /\ QueriesComposed =>
                /\ sqlParams.firstRowIndex = 0
                /\ sqlParams.pageSize = MAX_INT
        /\ Succeeded =>
                /\ response.pageIndex = 1
                /\ response.pageSize = response.total

(***************************************************************************)
(* C4: in searchSRMChallenges and getSRMSchedule an accepted request with  *)
(* pageIndex >= 1 whose data query returns zero rows is answered exactly   *)
(* {total: 0, pageIndex: asked, pageSize: asked or default, data: []},     *)
(* whatever the count query returned, and no error is reported.            *)
(***************************************************************************)
C4_EmptyEnvelope ==
    (/\ IsSearchOrSchedule
     /\ AskedPageIndex(req) >= 1
     /\ results.got = {"count", "data"}
     /\ results.data = <<>>) =>
        /\ pc = "done"
        /\ error = Null
        /\ response = [total |-> 0, pageIndex |-> AskedPageIndex(req),
                       pageSize |-> AskedPageSize(req), data |-> <<>>]

C4_Witness ==
    /\ req.ep = "getSRMSchedule"
    /\ AskedPageIndex(req) = 2
    /\ results.got = {"count", "data"}
    /\ results.data = <<>>
    /\ results.count > 0
    /\ response.total = 0

(***************************************************************************)
(* The response a listing request gets from a store of n rows that is not  *)
(* written meanwhile, and whether the request is accepted.                 *)
(***************************************************************************)
Accepted(r) ==
    CASE r.ep = "searchSRMChallenges" -> ~searchThrows(r.params) /\ searchValidate(r.params) = Null
      [] r.ep = "getSRMSchedule" -> scheduleValidate(r.params) = Null
      [] OTHER -> practiceValidate(r.params, r.caller) = Null

ResponseOf(r, n) ==
    LET pi == CASE r.ep = "searchSRMChallenges" -> searchPageIndex(r.params)
                [] r.ep = "getSRMSchedule" -> schedulePageIndex(r.params)
                [] OTHER -> practicePageIndex(r.params)
        ps == CASE r.ep = "searchSRMChallenges" -> searchPageSize(r.params)
                [] r.ep = "getSRMSchedule" -> schedulePageSize(r.params)
                [] OTHER -> practicePageSize(r.params)
        w == IF r.ep = "getPracticeProblems" THEN [pageIndex |-> pi, pageSize |-> ps]
             ELSE pageWindow(pi, ps)
        res == [got |-> {"count", "data"},
                count |-> countRows(n),
                data |-> dataRows(n, firstRowIndex(w.pageIndex, w.pageSize), w.pageSize.v)]
    IN Envelope(r, w.pageIndex, w.pageSize, res)

\* r differs from the request in flight in pageIndex and pageSize at most
SameButWindow(r) ==
    /\ r.ep = req.ep
    /\ r.caller = req.caller
    /\ [r.params EXCEPT !.pageIndex = RawUndef, !.pageSize = RawUndef]
         = [req.params EXCEPT !.pageIndex = RawUndef, !.pageSize = RawUndef]

(***************************************************************************)
(* C5: two accepted requests to the same listing endpoint against the same *)
(* unchanged dataset that differ only in pageIndex and/or pageSize report  *)
(* the same total.                                                         *)
(***************************************************************************)
C5_TotalIndependentOfWindow ==
    (IsListing /\ Succeeded /\ ~dirty) =>
        \A r \in ListRequests :
            (SameButWindow(r) /\ Accepted(r)) => ResponseOf(r, rows).total = response.total

(***************************************************************************)
(* C5 as amended: the two responses report the same total when both pages  *)
(* hold at least one row, and always in getPracticeProblems.               *)
(***************************************************************************)
C5_TotalOfNonEmptyPages ==
    (IsListing /\ Succeeded /\ ~dirty) =>
        \A r \in ListRequests :
            (/\ SameButWindow(r)
             /\ Accepted(r)
             /\ \/ req.ep = "getPracticeProblems"
                \/ response.data # <<>> /\ ResponseOf(r, rows).data # <<>>) =>
                ResponseOf(r, rows).total = response.total

C5_Witness ==
    /\ req.ep = "searchSRMChallenges"
    /\ Succeeded
    /\ ~dirty
    /\ response.data # <<>>
    /\ response.total = MaxRows
    /\ \E r \in ListRequests :
        /\ SameButWindow(r)
        /\ Accepted(r)
        /\ r.params.pageIndex # req.params.pageIndex
        /\ ResponseOf(r, rows).data # <<>>
        /\ ResponseOf(r, rows).data # response.data

(***************************************************************************)
(* C6: an otherwise valid listing request whose sortColumn is not in the   *)
(* endpoint's allow-list (compared case-insensitively) fails with an       *)
(* invalid-argument error for sortColumn and neither query is executed.    *)
(***************************************************************************)
OtherwiseValid(r) ==
    /\ r.params.pageIndex = RawUndef
    /\ r.params.pageSize = RawUndef
    /\ r.params.sortOrder \in {undefined, "asc", "desc", "ASC", "Desc"}
    /\ r.params.listType = undefined
    /\ r.params.challengeName \in {undefined, "srm"}
    /\ r.caller = "member"
    /\ r.db

C6_UnknownSortColumnRejected ==
    (/\ IsListing
     /\ req.params.sortColumn # undefined
     /\ ~InAllowList(req)
     /\ OtherwiseValid(req)) =>
        /\ ~QueriesComposed
        /\ pc # "crashed"
        /\ pc = "done" => error = IllegalArgumentError("sortColumn")

(***************************************************************************)
(* C7: for a sortColumn in the endpoint's allow-list, in any letter case,  *)
(* the sort column handed to the queries is the storage column of that     *)
(* same public column.                                                     *)
(***************************************************************************)
C7_SortsByOwnColumn ==
    (/\ IsListing
     /\ QueriesComposed
     /\ req.params.sortColumn # undefined
     /\ InAllowList(req)) =>
        sqlParams.sortColumn = getSortColumnDBName(toLowerCase(req.params.sortColumn))

(***************************************************************************)
(* C8: in searchSRMChallenges and getSRMSchedule the effective sortOrder   *)
(* is desc exactly when the caller omits sortOrder and leaves sortColumn   *)
(* at the endpoint default; otherwise it is the supplied sortOrder         *)
(* lower-cased, or asc when sortOrder is omitted.                          *)
(***************************************************************************)
AtDefaultColumn(r) ==
    \/ r.params.sortColumn = undefined
    \/ toLowerCase(r.params.sortColumn) = toLowerCase(DefaultSortColumnOf(r.ep))

C8_EffectiveSortOrder ==
    (IsSearchOrSchedule /\ QueriesComposed) =>
        sqlParams.sortOrder =
            IF req.params.sortOrder = undefined
            THEN IF AtDefaultColumn(req) THEN "desc" ELSE "asc"
            ELSE toLowerCase(req.params.sortOrder)

(***************************************************************************)
(* The store calls of a write request, read off the log of the calls.      *)
(***************************************************************************)
IsContestWrite(q) ==
    q \in {"insert_srm_contest", "update_srm_contest", "update_srm_contest_id",
           "delete_srm_contest"}
WritesStarted == SelectSeq(issued, IsContestWrite)
WritesCompleted == SelectSeq(auto.completed, IsContestWrite)
IsPrefix(a, b) == Len(a) <= Len(b) /\ a = SubSeq(b, 1, Len(a))
Validated == "validate" \in DOMAIN auto.results
SameContestId == parseInt(req.params.id) = parseInt(req.params.contestId)

(***************************************************************************)
(* C9: in updateSRMContest, after successful validation with id #          *)
(* contestId, the store operations are insert_srm_contest,                 *)
(* update_srm_contest, update_srm_contest_id and delete_srm_contest, each  *)
(* once, in that order, each started only after the previous completed,    *)
(* all four in a successful request, and the plain update is not run; with *)
(* id = contestId the only one is update_srm_contest, run exactly once in  *)
(* a successful request.  No store operation precedes the validation.      *)
(***************************************************************************)
C9_UpdateSequence ==
    req.ep = "updateSRMContest" =>
        /\ ~Validated => WritesStarted = <<>>
        /\ IsPrefix(WritesCompleted, WritesStarted)
        /\ Len(WritesStarted) <= Len(WritesCompleted) + 1
        /\ (Validated /\ ~SameContestId) =>
                /\ IsPrefix(WritesStarted, updateContestId_series)
                /\ Succeeded => WritesCompleted = updateContestId_series
        /\ (Validated /\ SameContestId) =>
                /\ IsPrefix(WritesStarted, <<"update_srm_contest">>)
                /\ Succeeded => WritesCompleted = <<"update_srm_contest">>

C9_Witness ==
    /\ req.ep = "updateSRMContest"
    /\ Validated
    /\ ~SameContestId
    /\ Succeeded
    /\ response = [success |-> TRUE]
    /\ WritesCompleted = updateContestId_series

(***************************************************************************)
(* A text holds a double quote outside an escaping pair when one of its    *)
(* maximal runs of double quotes has an odd length.                        *)
(***************************************************************************)
HasLoneQuote(s) ==
    \E i \in 1..Len(s) : \E j \in i..Len(s) :
        /\ \A k \in i..j : s[k] = Quote
        /\ i = 1 \/ s[i - 1] # Quote
        /\ j = Len(s) \/ s[j + 1] # Quote
        /\ (j - i + 1) % 2 = 1

FreeTextFields(ep) ==
    IF ep = "setRoundEvents" THEN {"eventName", "registrationUrl"}
    ELSE {"name", "adText", "adTask", "adCommand"}

CarriesLoneQuote(r) ==
    \E f \in FreeTextFields(r.ep) : r.params[f].t = "str" /\ HasLoneQuote(r.params[f].v)

IsCarrier(q) ==
    q \in {"insert_srm_contest", "update_srm_contest", "srm_insert_round_event"}

(***************************************************************************)
(* C10: in createSRMContest, updateSRMContest and setRoundEvents a request *)
(* with a free-text field (name, adText, adTask, adCommand, eventName,     *)
(* registrationUrl) that holds a double quote outside an escaping pair     *)
(* fails: the sqlParams step is never run, no insert or update query that  *)
(* would carry the value is ever started, no response is set, and the      *)
(* request ends in its first turn with an error, which is the              *)
(* invalid-argument error whenever the caller passed the admin check (the  *)
(* permission error otherwise).                                            *)
(***************************************************************************)
C10_LoneQuoteRejected ==
    (req.ep \in WriteEndpoints /\ CarriesLoneQuote(req)) =>
        /\ "sqlParams" \notin auto.started
        /\ SelectSeq(issued, IsCarrier) = <<>>
        /\ response = NoResponse
        /\ pc # "start" =>
                /\ pc = "done"
                /\ error # Null
                /\ req.caller = "admin" => error.kind = "IllegalArgumentError"

C10_Witness ==
    /\ req.ep = "createSRMContest"
    /\ req.caller = "admin"
    /\ req.params.name = Text(<<"a">>)
    /\ req.params.adCommand = Text(<<"a", Quote, "a">>)
    /\ pc = "done"
    /\ error = IllegalArgumentError("adCommand")
    /\ "adTask" \in DOMAIN auto.results

(***************************************************************************)
(* C11: in every admin endpoint (listSRMContests, createSRMContest,        *)
(* updateSRMContest, setRoundRoomAssignment, setRoundLanguages,            *)
(* setRoundEvents, loadRoundAccess), when the admin check fails no         *)
(* parameter validator is run, no store call (existence check or           *)
(* identifier generation included) is ever issued for the request, and the *)
(* request ends in its first turn with the permission error and without a  *)
(* response.                                                               *)
(***************************************************************************)
AdminTask(ep) == IF ep \in {"listSRMContests", "loadRoundAccess"} THEN "0" ELSE "admin"

C11_AdminCheckFirst ==
    (req.ep \in AdminEndpoints /\ checkAdmin(req.caller) # Null) =>
        /\ auto.started \subseteq {AdminTask(req.ep)}
        /\ issued = <<>>
        /\ pending = {}
        /\ auto.completed = <<>>
        /\ response = NoResponse
        /\ pc # "start" =>
                /\ pc = "done"
                /\ error = checkAdmin(req.caller)
                /\ error.kind \in {"ForbiddenError", "UnauthorizedError"}

C11_Witness ==
    /\ req.ep = "setRoundLanguages"
    /\ req.caller = "member"
    /\ req.params.roundId = RawInt(1)
    /\ req.params.languages = List(<<1>>)
    /\ pc = "done"
    /\ auto.started = {"admin"}
    /\ error = ForbiddenError

(***************************************************************************)
(* The bounds of a phase time of a request.                                *)
(***************************************************************************)
BeforeOf(r, i) == r.params[PhaseTimes[i] \o "Before"]
AfterOf(r, i) == r.params[PhaseTimes[i] \o "After"]
\* both bounds are present and well formed and the After bound is the later
Reversed(r, i) ==
    /\ BeforeOf(r, i).t = "date"
    /\ AfterOf(r, i).t = "date"
    /\ AfterOf(r, i).v > BeforeOf(r, i).v
\* no phase time of the request has both of its bounds
NoPairComplete(r) ==
    \A i \in DOMAIN PhaseTimes : BeforeOf(r, i) = JsUndefined \/ AfterOf(r, i) = JsUndefined
\* every bound the request gives is well formed
BoundsWellFormed(r) ==
    \A i \in DOMAIN PhaseTimes :
        /\ BeforeOf(r, i) # JsUndefined => BeforeOf(r, i).t = "date"
        /\ AfterOf(r, i) # JsUndefined => AfterOf(r, i).t = "date"
\* the request gives nothing but bounds of phase times
OnlyPhaseTimes(r) ==
    /\ r.db
    /\ \A f \in DOMAIN r.params :
            (\A i \in DOMAIN PhaseTimes :
                f # PhaseTimes[i] \o "Before" /\ f # PhaseTimes[i] \o "After")
            => r.params[f] = NoListParams[f]

(***************************************************************************)
(* C12: in getSRMSchedule, when both bounds of one of the ten phase times  *)
(* are present and well formed and the After bound is later than the       *)
(* Before bound, the request fails with an invalid-argument error and no   *)
(* query template is read, composed or executed; the error is '<X>After    *)
(* should be earlier than <X>Before' when nothing before that pair is at   *)
(* fault.  The order of the two bounds is checked only when both are       *)
(* present: a request that gives well-formed bounds, never both of a pair, *)
(* and nothing else is accepted.                                           *)
(***************************************************************************)
C12_PhaseTimeOrder ==
    (req.ep = "getSRMSchedule" /\ req.db /\ pc # "start") =>
        /\ \A i \in DOMAIN PhaseTimes :
                Reversed(req, i) =>
                    /\ pc = "done"
                    /\ error.kind = "IllegalArgumentError"
                    /\ issued = <<>>
                    /\ pending = {}
                    /\ ~QueriesComposed
                    /\ response = NoResponse
                    /\ (/\ OnlyPhaseTimes(req)
                        /\ BoundsWellFormed(req)
                        /\ \A j \in 1..(i - 1) : ~Reversed(req, j)) =>
                            error = IllegalArgumentError(
                                        PhaseTimes[i] \o "After should be earlier than "
                                            \o PhaseTimes[i] \o "Before")
        /\ (OnlyPhaseTimes(req) /\ BoundsWellFormed(req) /\ NoPairComplete(req)) =>
                /\ error.kind # "IllegalArgumentError"
                /\ issued # <<>>

C12_Witness ==
    /\ req.ep = "getSRMSchedule"
    /\ req.params.codingEndTimeBefore = Date(1)
    /\ req.params.codingEndTimeAfter = Date(2)
    /\ req.params.pageSize = RawUndef
    /\ req.params.registrationStartTimeBefore = Date(2)
    /\ pc = "done"
    /\ error = IllegalArgumentError("codingEndTimeAfter should be earlier than codingEndTimeBefore")
    /\ issued = <<>>

(***************************************************************************)
(* The comma-delimited list parameters and their allow-lists.              *)
(***************************************************************************)
ListFields(ep) ==
    IF ep = "getSRMSchedule" THEN {"statuses", "types"}
    ELSE {"statuses", "difficulty", "problemTypes"}

ListAllowed(ep, f) ==
    CASE ep = "getSRMSchedule" /\ f = "statuses" -> VALID_ROUND_STATUS
      [] ep = "getSRMSchedule" /\ f = "types" -> VALID_ROUND_TYPES
      [] ep = "getPracticeProblems" /\ f = "statuses" -> VALID_PRACTICE_PROBLEMS_STATUS
      [] ep = "getPracticeProblems" /\ f = "difficulty" -> VALID_PRACTICE_PROBLEMS_DIFFICULTY
      [] OTHER -> VALID_PRACTICE_PROBLEMS_TYPE

\* the list f of the request has an element that its allow-list has not
HasForeignElement(r, f) ==
    /\ r.params[f] # JsUndefined
    /\ \E i \in DOMAIN r.params[f].v : r.params[f].v[i] \notin Range(ListAllowed(r.ep, f))

\* but for the list f the request is valid: its other lists hold allowed
\* elements only and it gives nothing else
ValidButFor(r, f) ==
    /\ r.db
    /\ r.caller = "member"
    /\ \A g \in ListFields(r.ep) \ {f} : ~HasForeignElement(r, g)
    /\ \A g \in DOMAIN r.params \ ListFields(r.ep) : r.params[g] = NoListParams[g]

(***************************************************************************)
(* C13: in getSRMSchedule (statuses, types) and getPracticeProblems        *)
(* (statuses, difficulty, problemTypes) a request with a list parameter    *)
(* that has an element absent from the allow-list of the parameter is      *)
(* rejected and no query template is read and no query executed; when the  *)
(* request is otherwise valid the error is the invalid-argument error      *)
(* naming that parameter.                                                  *)
(***************************************************************************)
C13_ForeignElementRejected ==
    (req.ep \in {"getSRMSchedule", "getPracticeProblems"} /\ req.db /\ pc # "start") =>
        \A f \in ListFields(req.ep) :
            HasForeignElement(req, f) =>
                /\ pc = "done"
                /\ error # Null
                /\ issued = <<>>
                /\ pending = {}
                /\ ~QueriesComposed
                /\ response = NoResponse
                /\ ValidButFor(req, f) => error = IllegalArgumentError(f)

C13_Witness ==
    /\ req.ep = "getPracticeProblems"
    /\ req.caller = "member"
    /\ req.params.statuses = Csv(<<"solved", "viewed">>)
    /\ req.params.difficulty = Csv(<<"easy", "bogus">>)
    /\ req.params.problemTypes = JsUndefined
    /\ pc = "done"
    /\ error = IllegalArgumentError("difficulty")
    /\ issued = <<>>

(***************************************************************************)
(* C14: every input of a read endpoint is optional; a searchSRMChallenges  *)
(* request that carries no parameter at all completes by calling next with *)
(* the envelope of the defaults: page 1 of size DEFAULT_PAGE_SIZE, sorted  *)
(* by roundId descending, over the active challenges of any name.          *)
(***************************************************************************)
C14_NoParametersDefaults ==
    (/\ req.ep \in {"searchSRMChallenges", "getSRMSchedule"}
     /\ req.db
     /\ req.params = NoListParams
     /\ pc # "start") =>
        /\ pc # "crashed"
        /\ error \in {Null, StoreError}
        /\ (pc = "done" /\ error = Null /\ req.ep = "searchSRMChallenges") =>
              /\ response # NoResponse
              /\ response.pageIndex = 1
              /\ response.pageSize = DEFAULT_PAGE_SIZE
              /\ sortColumn = "roundid"
              /\ sortOrder = "desc"

(***************************************************************************)
(* C15: in createSRMContest, updateSRMContest, setRoundRoomAssignment and  *)
(* setRoundEvents a field declared optional that the request leaves out    *)
(* does not make the request fail: an invalid-argument error on a field    *)
(* the request does not carry is an error on a required field.             *)
(***************************************************************************)
RequiredInputs(ep) ==
    CASE ep = "createSRMContest" -> {"name"}
      [] ep = "updateSRMContest" -> {"id", "contestId", "name"}
      [] ep = "setRoundRoomAssignment" -> {"roundId"}
      [] OTHER -> {"roundId", "eventId"}

C15_AbsentOptionalAccepted ==
    (/\ req.ep \in {"createSRMContest", "updateSRMContest", "setRoundRoomAssignment",
                    "setRoundEvents"}
     /\ pc = "done"
     /\ error.kind = "IllegalArgumentError"
     /\ error.field \in WriteFields
     /\ req.params[error.field] = RawUndef) =>
        error.field \in RequiredInputs(req.ep)

(***************************************************************************)
(* C16: in every endpoint a request on a connection without                *)
(* dbConnectionMap is answered through the no-connection handler before    *)
(* any validation, permission check or store query: no task of the handler *)
(* is started, no query is issued and the answer is that of the handler.   *)
(***************************************************************************)
C16_NoConnectionFirst ==
    (req.ep # "none" /\ ~req.db /\ pc # "start") =>
        /\ pc = "done"
        /\ error = NoConnectionError
        /\ auto.started = {}
        /\ issued = <<>>
        /\ pending = {}
        /\ response = NoResponse

(***************************************************************************)
(* C17: a detail lookup of an absent identifier yields a not-found error   *)
(* and no response.  getSRMChallenge reports NotFoundError exactly when    *)
(* get_srm_detail_basic answers no row; getSrmRoundsForProblem reports it  *)
(* when check_problem_exists reports absence, and then                     *)
(* get_rounds_for_problem is never executed; when the entity exists the    *)
(* response is set and no error is reported.  (A query that fails makes    *)
(* the request fail with the error of the store.)                          *)
(***************************************************************************)
Answered(k) == k \in DOMAIN auto.results
Ended == pc = "done" /\ pending = {} /\ error # StoreError

C17_NotFoundForAbsent ==
    /\ (req.ep = "getSRMChallenge" /\ req.db) =>
          /\ error = NotFoundError =>
                /\ Answered("basic") /\ auto.results["basic"].v = 0
                /\ pc = "done" /\ response = NoResponse
          /\ (Ended /\ Answered("basic") /\ auto.results["basic"].v = 0) =>
                error = NotFoundError
          /\ (Ended /\ Answered("basic") /\ auto.results["basic"].v > 0) =>
                /\ error = Null
                /\ response = challengeResult(req.params, auto.results)
    /\ (req.ep = "getSrmRoundsForProblem" /\ req.db) =>
          /\ error = NotFoundError =>
                Answered("checkProblem") /\ auto.results["checkProblem"].v = 0
          /\ (Answered("checkProblem") /\ auto.results["checkProblem"].v = 0) =>
                /\ pc = "done" /\ error = NotFoundError /\ response = NoResponse
                /\ "get_rounds_for_problem" \notin Range(issued)
          /\ (Ended /\ Answered("checkProblem") /\ auto.results["checkProblem"].v = 1) =>
                /\ error = Null
                /\ response = [rounds |-> auto.results["rounds"].v]

C17_Witness ==
    /\ req.ep = "getSRMChallenge"
    /\ req.params = [id |-> RawInt(2), er |-> RawUndef]
    /\ pc = "done"
    /\ pending = {}
    /\ auto.completed = <<"get_srm_detail_problem", "get_srm_detail_leader",
                          "get_srm_detail_basic">>
    /\ auto.results["basic"].v = 0
    /\ error = NotFoundError
    /\ response = NoResponse

(***************************************************************************)
(* C18: in createSRMContest the identifier is requested from CONTEST_SEQ   *)
(* only after the admin check and every field validation succeeded;        *)
(* insert_srm_contest is executed only after the identifier was obtained,  *)
(* with that identifier as contestId; a successful request answers         *)
(* {contestId: that identifier}, never the placeholder MAX_INT.            *)
(***************************************************************************)
Requested(q) == q \in Range(issued)
Obtained(q) == q \in Range(auto.completed)
ArgsOf(q) == auto.args[CHOOSE i \in DOMAIN issued : issued[i] = q]

C18_GeneratedIdentifier ==
    req.ep = "createSRMContest" =>
        /\ Requested("CONTEST_SEQ") =>
              /\ checkAdmin(req.caller) = Null
              /\ {"admin", "common", "sqlParams"} \cup Range(createArgs) \subseteq DOMAIN auto.results
              /\ error \in {Null, StoreError}
        /\ Requested("insert_srm_contest") =>
              /\ Obtained("CONTEST_SEQ")
              /\ auto.genContestId \in GeneratedIds
              /\ ArgsOf("insert_srm_contest").v["contestId"] = Num(auto.genContestId)
        /\ Succeeded =>
              /\ Obtained("insert_srm_contest")
              /\ auto.genContestId # MAX_INT
              /\ response = [contestId |-> auto.genContestId]
        /\ (pc = "done" /\ error # Null) => response = NoResponse

C18_Witness ==
    /\ req.ep = "createSRMContest"
    /\ req.caller = "admin"
    /\ pc = "done"
    /\ error = Null
    /\ issued = <<"CONTEST_SEQ", "insert_srm_contest">>
    /\ auto.completed = issued
    /\ ArgsOf("insert_srm_contest").v["contestId"] = Num(4)
    /\ response = [contestId |-> 4]

(***************************************************************************)
(* C19: in createSRMContest and updateSRMContest the end of a date pair    *)
(* (endDate, adEnd) is validated only after its start (startDate, adStart) *)
(* validated successfully; with both dates present and well formed the end *)
(* is accepted only if the start precedes it, and otherwise the request    *)
(* fails with '<start> does not precede <end>.'; with the start absent a   *)
(* well-formed end is accepted as it is.                                   *)
(***************************************************************************)
DatePairs == {<<"startDate", "endDate">>, <<"adStart", "adEnd">>}
WellFormed(x) == x.t = "date"

C19_DatePairOrder ==
    req.ep \in {"createSRMContest", "updateSRMContest"} =>
        \A p \in DatePairs :
            LET s == req.params[p[1]]
                e == req.params[p[2]]
            IN p[2] \in auto.started =>
                  /\ p[1] \in DOMAIN auto.results
                  /\ (WellFormed(s) /\ WellFormed(e) /\ s.v < e.v) =>
                        /\ p[2] \in DOMAIN auto.results
                        /\ auto.results[p[2]] = e
                  /\ (WellFormed(s) /\ WellFormed(e) /\ ~(s.v < e.v)) =>
                        /\ p[2] \notin DOMAIN auto.results
                        /\ pc = "done"
                        /\ error = IllegalArgumentError(p[1] \o " does not precede "
                                                        \o p[2] \o ".")
                        /\ WritesStarted = <<>>
                        /\ ~Requested("CONTEST_SEQ")
                  /\ (isNullOrUndefined(s) /\ WellFormed(e)) =>
                        /\ p[2] \in DOMAIN auto.results
                        /\ auto.results[p[2]] = e

C19_Witness ==
    /\ req.ep = "updateSRMContest"
    /\ req.caller = "admin"
    /\ req.params.adStart = Date(2)
    /\ req.params.adEnd = Date(2)
    /\ pc = "done"
    /\ "adStart" \in DOMAIN auto.results
    /\ "adEnd" \in auto.started
    /\ error = IllegalArgumentError("adStart does not precede adEnd.")

(***************************************************************************)
(* C20: with pageIndex = -1 the supplied pageSize is ignored: in           *)
(* searchSRMChallenges and getSRMSchedule a request with pageIndex = -1    *)
(* has the outcome of the request that differs from it only in leaving     *)
(* pageSize out, whatever the pageSize (0, negative, no number): accepted  *)
(* alike, with the same query parameters and the same response.            *)
(***************************************************************************)
WithoutPageSize(r) == [r EXCEPT !.params.pageSize = RawUndef]

C20_PageSizeIgnored ==
    (/\ IsSearchOrSchedule
     /\ req.db
     /\ AskedAll(req)
     /\ Accepted(WithoutPageSize(req))
     /\ pc \notin {"start", "crashed"}) =>
        /\ error.kind # "IllegalArgumentError"
        /\ QueriesComposed =>
              /\ sqlParams.firstRowIndex = 0
              /\ sqlParams.pageSize = MAX_INT
        /\ (Succeeded /\ ~dirty) => response = ResponseOf(WithoutPageSize(req), rows)

(***************************************************************************)
(* C21: in createSRMContest, updateSRMContest, setRoundRoomAssignment,     *)
(* setRoundLanguages and setRoundEvents no mutating store query (insert,   *)
(* update, relink, delete, clear) is started unless every field validator  *)
(* and existence check of the request has succeeded, and none is started   *)
(* once the request has failed.                                            *)
(***************************************************************************)
MutatingQueries ==
    {"insert_srm_contest", "update_srm_contest", "update_srm_contest_id", "delete_srm_contest",
     "srm_update_room_assignment", "srm_clear_round_languages", "srm_insert_round_language",
     "srm_clear_round_events", "srm_insert_round_event"}

ChecksOf(ep) ==
    CASE ep = "createSRMContest" -> {"admin"} \cup Range(createArgs)
      [] ep = "updateSRMContest" -> {"admin"} \cup Range(updateArgs)
      [] ep = "setRoundRoomAssignment" -> {"admin", "exists"} \cup Range(roomArgs)
      [] ep = "setRoundLanguages" -> {"admin", "roundId", "exists", "knownLanguages", "languages"}
      [] OTHER -> {"admin", "exists"} \cup Range(eventArgs)

C21_ValidatedBeforeWrite ==
    (/\ req.ep \in {"createSRMContest", "updateSRMContest", "setRoundRoomAssignment",
                    "setRoundLanguages", "setRoundEvents"}
     /\ \E i \in DOMAIN issued : issued[i] \in MutatingQueries) =>
        /\ ChecksOf(req.ep) \subseteq DOMAIN auto.results
        /\ error \in {Null, StoreError}

(***************************************************************************)
(* C22: every string of the caller that addFilter or addScheduleFilter     *)
(* splices as a literal into a predicate has passed a check that excludes  *)
(* quote characters: the lists are made of elements of their allow-lists,  *)
(* the phase-time bounds are well-formed dates, and the problemName        *)
(* pattern holds no quote.                                                 *)
(***************************************************************************)
AllowedElements(ep, on) ==
    IF ep = "getSRMSchedule" THEN Range(VALID_ROUND_STATUS)
    ELSE Range(ListAllowed(ep, on))

SafeLiteral(ep, c) ==
    CASE c.value.t = "like" -> Range(c.value.v) \cap {Quote, Apostrophe} = {}
      [] c.value.t = "quoted" -> Range(c.value.v) \subseteq AllowedElements(ep, c.on)
      [] c.value.t = "numbers" -> \A i \in DOMAIN c.value.v : c.value.v[i].t = "int"
      [] c.value.t = "dbtime" -> c.given.t = "date"
      [] OTHER -> TRUE

C22_SplicedLiteralsChecked ==
    \A i \in DOMAIN filters : SafeLiteral(req.ep, filters[i])

(***************************************************************************)
(* C23: a request that is rejected with an invalid-argument error of a     *)
(* pure validator (format, range, length, membership, quote check) is      *)
(* rejected before any store call has been issued for it: in               *)
(* createSRMContest and updateSRMContest no existence query is issued in a *)
(* request whose name, status, date or ad* field is invalid, and likewise  *)
(* for the fields of setRoundRoomAssignment and setRoundEvents that are    *)
(* checked without the store.                                              *)
(***************************************************************************)
PureFields ==
    {"name", "status", "startDate", "endDate", "adText", "adStart", "adEnd", "adTask",
     "adCommand", "activateMenu", doesNotPrecede("endDate"), doesNotPrecede("adEnd"),
     "codersPerRoom", "type", "isByDivision", "isByRegion", "isFinal", "p",
     "eventId", "eventName", "registrationUrl"}

C23_RejectedBeforeStoreCall ==
    (/\ req.ep \in AdminEndpoints
     /\ error.kind = "IllegalArgumentError"
     /\ error.field \in PureFields) =>
        issued = <<>>

(***************************************************************************)
(* C24: a filter clause is spliced into the query templates only for a     *)
(* parameter that is present in the caller's request; for an absent        *)
(* parameter the templates are left as they were.                          *)
(***************************************************************************)
C24_ClauseOnlyForGivenParameter ==
    \A i \in DOMAIN filters : req.params[filters[i].on] # JsUndefined

(***************************************************************************)
(* C25: no request handler writes state that is shared across requests:    *)
(* after any sequence of requests the module-level time zone still holds    *)
(* the value it had when the module was loaded.                            *)
(***************************************************************************)
\* var SCHEDULE_TIMEZONE = '';
LoadedTimezone == ""

C25_ModuleStateKept == SCHEDULE_TIMEZONE = LoadedTimezone

(***************************************************************************)
(* C26: checkIllegalCharacters(s, name) answers an IllegalArgumentError    *)
(* exactly when some maximal run of consecutive double quotes in s has odd  *)
(* length, and null for every other string, the empty string and the       *)
(* strings without a quote included.                                       *)
(***************************************************************************)
\* the positions i..j of s are a maximal run of double quotes
QuoteRun(s, i, j) ==
    /\ i <= j
    /\ \A k \in i..j : s[k] = Quote
    /\ i = 1 \/ s[i - 1] # Quote
    /\ j = Len(s) \/ s[j + 1] # Quote

OddRun(s) == \E i, j \in DOMAIN s : QuoteRun(s, i, j) /\ (j - i + 1) % 2 = 1

\* the text field f of a contest request reaches checkIllegalCharacters: the
\* checks before it in the validator of f have passed
Scanned(f, limit) ==
    /\ req.ep \in {"createSRMContest", "updateSRMContest"}
    /\ req.params[f].t = "str"
    /\ (IF f = "name" THEN checkStringPopulated(req.params[f], f)
                      ELSE checkString(req.params[f], f)) = Null
    /\ checkExceedsLength(req.params[f], limit, f) = Null

ScannedFields == <<"name", "adTask", "adCommand">>
LengthLimit == [name |-> CHALLENGE_NAME_MAX, adTask |-> 30, adCommand |-> 30]

CountQueries == {"get_srm_challenges_count", "count"}
DataQueries == {"get_srm_challenges", "data"}
Issued(qs) == \E i \in DOMAIN issued : issued[i] \in qs

\* what the two queries answer on a store that nobody writes meanwhile
QuietResults ==
    [got |-> {"count", "data"},
     count |-> countRows(rows),
     data |-> dataRows(rows, sqlParams.firstRowIndex, sqlParams.pageSize)]

C27_CountAndDataJoined ==
    req.ep \in ListEndpoints =>
        /\ Issued(CountQueries) <=> Issued(DataQueries)
        /\ (pc = "querying" /\ error = Null /\ results.got = {})
               => pending = {"count", "data"}
        /\ response # NoResponse =>
               /\ results.got = {"count", "data"}
               /\ pending \cap {"count", "data"} = {}
               /\ error = Null
               /\ response = Envelope(req, pageIndex, pageSize, results)
               /\ ~dirty => response = Envelope(req, pageIndex, pageSize, QuietResults)
        /\ error # Null => response = NoResponse
        /\ (pc = "done" /\ Issued(DataQueries) /\ error = Null) => response # NoResponse

\* both queries have answered and the envelope reports the rows of the store
C27_Witness ==
    /\ req.ep = "getSRMSchedule"
    /\ pc = "done"
    /\ results.got = {"count", "data"}
    /\ rows > 0
    /\ response = Envelope(req, pageIndex, pageSize, QuietResults)
    /\ response.total = rows

(***************************************************************************)
(* The listing endpoints under the scheduling of the event loop: a run     *)
(* that has been invoked is executed, and the store answers every call it   *)
(* was handed.                                                             *)
(***************************************************************************)
SpecLive ==
    /\ Spec
    /\ WF_vars(searchSRMChallenges_run)
    /\ WF_vars(getSRMSchedule_run)
    /\ WF_vars(getPracticeProblems_run)
    /\ WF_vars(readQueryDone)
    /\ WF_vars(executeQueryDone)

(***************************************************************************)
(* C28: every invocation of run eventually calls next(connection, true),   *)
(* and then exactly one of the two has happened: connection.response was   *)
(* set, or the error handler was invoked.                                  *)
(***************************************************************************)
NextCalled == pc = "done"
Answered_xor_Failed == (response # NoResponse) # (error # Null)

C28_RunCompletes == (pc = "start") ~> (NextCalled /\ Answered_xor_Failed)

(***************************************************************************)
(* C29: in setRoundLanguages srm_clear_round_languages is executed at most *)
(* once per request and has completed before the first                     *)
(* srm_insert_round_language starts; after a successful request exactly    *)
(* one insert was executed for each distinct language of the request; and  *)
(* never more than PARALLELIZATION_LIMIT inserts are in flight.            *)
(***************************************************************************)
CallsOf(q) == {i \in DOMAIN issued : issued[i] = q}
InFlight(q) == {c \in pending : c.q = q}
InsertedLanguages == {auto.args[i] : i \in CallsOf("srm_insert_round_language")}
RequestedLanguages == {Num(req.params.languages.v[i]) : i \in DOMAIN req.params.languages.v}

C29_LanguagesReplaced ==
    req.ep = "setRoundLanguages" =>
        /\ Cardinality(CallsOf("srm_clear_round_languages")) <= 1
        /\ CallsOf("srm_insert_round_language") # {} =>
              /\ Obtained("srm_clear_round_languages")
              /\ \A i \in CallsOf("srm_insert_round_language"),
                    j \in CallsOf("srm_clear_round_languages") : j < i
        /\ Cardinality(InFlight("srm_insert_round_language")) <= PARALLELIZATION_LIMIT
        /\ (pc = "done" /\ error = Null) =>
              /\ response = [success |-> TRUE]
              /\ InsertedLanguages = RequestedLanguages
              /\ Cardinality(CallsOf("srm_insert_round_language"))
                    = Cardinality(RequestedLanguages)
              /\ InFlight("srm_insert_round_language") = {}

\* five languages with a duplicate were requested, four were inserted
C29_Witness ==
    /\ req.ep = "setRoundLanguages"
    /\ req.params.languages = List(<<2, 4, 1, 3, 2>>)
    /\ pc = "done"
    /\ error = Null
    /\ InsertedLanguages = {Num(1), Num(2), Num(3), Num(4)}
    /\ Cardinality(CallsOf("srm_insert_round_language")) = 4

(***************************************************************************)
(* C30: for every request accepted by the pagination validators of         *)
(* searchSRMChallenges and getSRMSchedule (pageIndex and pageSize each at  *)
(* most MAX_INT) the firstRowIndex = (pageIndex-1)*pageSize handed to the  *)
(* store is a non-negative integer not exceeding MAX_INT.                  *)
(***************************************************************************)
C30_FirstRowIndexInRange ==
    (IsSearchOrSchedule /\ QueriesComposed) =>
        /\ pageIndex.t = "int" /\ pageSize.t = "int"
        /\ pageIndex.v <= MAX_INT /\ pageSize.v <= MAX_INT
        /\ sqlParams.firstRowIndex >= 0
        /\ fits(pageIndex.v - 1, pageSize.v)

====
